---- MODULE Spec2Model ----
(***************************************************************************)
(* rn-structured-logger: the Logger (level gate, redaction, rate limit,    *)
(* sampling), its AsyncBatchQueue, the fan-out to transports, and the pure *)
(* policy functions makeRedactor, makeRateLimiter and shouldSample.        *)
(*                                                                         *)
(* JavaScript runs one task at a time: a log call, a timer callback and    *)
(* the synchronous prefix of an async function (up to its first await) are *)
(* each one atomic action; every continuation after an await is an action  *)
(* of its own.                                                             *)
(***************************************************************************)
EXTENDS Naturals, Integers, Sequences, FiniteSets, TLC

\* ------------------------------------------------------------------ bounds
MaxCalls == 2        \* records built by log calls in one run
MaxBatch == 2        \* batch.size is drawn from 1..MaxBatch
MaxFlushCalls == 1   \* Logger.flush() calls in one run
MaxNodes == 4        \* values (primitives, arrays, objects) in a context given to the redactor
MaxArr == 2          \* elements of one array in such a context
MaxPerMin == 2       \* maxPerMin of a rate limiter on its own is drawn from 1..MaxPerMin
MaxRateCalls == 4    \* calls of such a limiter in one run
MaxTicks == 3        \* clock advances in such a run
MaxSamples == 3      \* calls of shouldSample in one run
MaxLoggers == 3      \* Loggers made by initLogger, getLogger(ns) and child in one run
MaxFamilyCalls == 1  \* records built by the log calls on such Loggers in one run

\* --------------------------------------------------------------- constants
WINDOW_MS == 60000
MARKER == "[REDACTED]"
RateDenom == 2       \* sampling rates and random draws are counted in halves

LEVELS == <<"trace", "debug", "info", "warn", "error", "fatal">>
Levels == {LEVELS[i] : i \in DOMAIN LEVELS}
InitLevels == {"debug", "warn"}
Transports == 1..2
FlushIds == 1..MaxFlushCalls

\* -------------------------------------------------- structured values (ctx)
Prim(s) == [tag |-> "prim", val |-> s]
Arr(items) == [tag |-> "arr", items |-> items]
Obj(fields) == [tag |-> "obj", fields |-> fields]
Undefined == [tag |-> "undefined"]

\* ------------------------------------------------------------ redactor.ts
DEFAULT_SENSITIVE_KEYS ==
  <<"password", "pass", "token", "authorization", "secret", "otp", "pin",
    "creditcard", "sessionid">>

\* String.prototype.toLowerCase on the key universe of the model
ToLowerCase(k) ==
  CASE k = "Token" -> "token"
    [] k = "PIN" -> "pin"
    [] k = "Custom" -> "custom"
    [] k = "CUSTOM" -> "custom"
    [] OTHER -> k

SeqRange(s) == {s[i] : i \in DOMAIN s}

\* the Set built by makeRedactor
SensitiveKeys(extraKeys) ==
  {ToLowerCase(k) : k \in SeqRange(DEFAULT_SENSITIVE_KEYS \o extraKeys)}

\* mutant: the array branch is missing, arrays pass through as they are
RECURSIVE RedactValue_noArrays(_, _)
RedactValue_noArrays(keys, value) ==
  IF value.tag = "obj"
    THEN Obj([k \in DOMAIN value.fields |->
               IF ToLowerCase(k) \in keys
                 THEN Prim(MARKER)
                 ELSE RedactValue_noArrays(keys, value.fields[k])])
  ELSE value

\* mutant: toLowerCase is applied to the key written, not to the key looked up
RECURSIVE RedactValue_lowerOut(_, _)
RedactValue_lowerOut(keys, value) ==
  IF value.tag = "arr"
    THEN Arr([i \in DOMAIN value.items |-> RedactValue_lowerOut(keys, value.items[i])])
  ELSE IF value.tag = "obj"
    THEN Obj([lk \in {ToLowerCase(k) : k \in DOMAIN value.fields} |->
               LET k == CHOOSE k \in DOMAIN value.fields : ToLowerCase(k) = lk
               IN IF k \in keys
                    THEN Prim(MARKER)
                    ELSE RedactValue_lowerOut(keys, value.fields[k])])
  ELSE value

RECURSIVE RedactValue(_, _)
RedactValue(keys, value) ==
  IF value.tag = "arr"
    THEN Arr([i \in DOMAIN value.items |-> RedactValue(keys, value.items[i])])
  ELSE IF value.tag = "obj"
    THEN Obj([k \in DOMAIN value.fields |->
               IF ToLowerCase(k) \in keys
                 THEN Prim(MARKER)
                 ELSE RedactValue(keys, value.fields[k])])
  ELSE value

\* the function returned by makeRedactor(extraKeys)
Redactor(extraKeys, record) ==
  IF record.ctx = Undefined
    THEN record
    ELSE [record EXCEPT !.ctx = RedactValue(SensitiveKeys(extraKeys), record.ctx)]

\* ------------------------------------------------------------- sampler.ts
\* mutant: the draw is compared with <= instead of <
ShouldSample_lte(level, rate, draw) ==
  IF level = "error" \/ level = "fatal" \/ level = "warn"
    THEN TRUE
    ELSE draw <= rate

\* draw stands for Math.random(), rate for the configured rate, both in halves
ShouldSample(level, rate, draw) ==
  IF level = "error" \/ level = "fatal" \/ level = "warn"
    THEN TRUE
    ELSE draw < rate

\* --------------------------------------------------------- rateLimiter.ts
MakeRateLimiter(t) == [count |-> 0, windowStart |-> t]

\* mutant: the window is reset only after more than 60000 ms (> for >=)
RateLimiterCall_late(st, t) ==
  LET reset == t - st.windowStart > WINDOW_MS
      c == IF reset THEN 0 ELSE st.count
  IN [count |-> c + 1,
      windowStart |-> IF reset THEN t ELSE st.windowStart]

\* mutant: the window is reset whenever the clock has moved since it began
RateLimiterCall_eager(st, t) ==
  LET reset == t - st.windowStart >= 1
      c == IF reset THEN 0 ELSE st.count
  IN [count |-> c + 1,
      windowStart |-> IF reset THEN t ELSE st.windowStart]

\* the closure's state after one call at time t
RateLimiterCall(st, t) ==
  LET reset == t - st.windowStart >= WINDOW_MS
      c == IF reset THEN 0 ELSE st.count
  IN [count |-> c + 1,
      windowStart |-> IF reset THEN t ELSE st.windowStart]

RateLimiterResult(st, t, maxPerMin) == RateLimiterCall(st, t).count <= maxPerMin

\* ------------------------------------------------------------------- state
VARIABLES
  cfg,       \* Logger.cfg: level, batchSize, redactor, rate, maxPerMin (0: no rateLimit)
  rl,        \* the rate limiter closure: count, windowStart
  now,       \* Date.now()
  buffer,    \* AsyncBatchQueue.buffer
  timer,     \* AsyncBatchQueue.timer is non-null
  timeouts,  \* the setTimeout callbacks not yet run or cleared, each named by the
             \* id of the record whose push made it, oldest first
  flushing,  \* AsyncBatchQueue.flushing
  cbs,       \* cbs[b]: the callback invocation that got batch b: st, its promise
             \* (pending/resolved/rejected, finished once the queue.flush() that
             \* made it has run its finally block); owner, the Logger.flush() call
             \* awaiting that queue.flush() (0: a push or the timer, or finished)
  batches,   \* every sequence handed to the flush callback, in invocation order
  wstat,     \* wstat[t][b]: what became of batch b at transport t's write: skipped
             \* (not invoked), threw, pending, ok, rejected; done for an outcome
             \* that nothing reads any more (its queue.flush() has finished)
  fl,        \* the Logger.flush() calls
  pushed,    \* every record handed to queue.push, in push order
  nextId,    \* number of records built so far, plus one
  ignored,   \* the level of the log call the gate turned away in the last step,
             \* "none" after any other step
  red,       \* a redactor at work: extraKeys, the input record, the records returned so far
  lim,       \* a rate limiter on its own: maxPerMin, its calls (time, result), clock advances
  smp,       \* shouldSample at work: level, rate, Math.random(), the results returned so far
  dsp,       \* the Logger.dispose() call
  trace,     \* what the last log call invoked, in order: redactor, rateLimiter,
             \* shouldSample, push (nothing: no call yet, or the gate turned it away)
  fam        \* LogManager's instance, every Logger made by initLogger or child,
             \* the batches written, the records built, the flush() and
             \* dispose() calls made on those Loggers, the last value returned

otherVars == <<red, lim, smp, fam>>
vars == <<cfg, rl, now, buffer, timer, timeouts, flushing, cbs, batches, wstat,
          fl, pushed, nextId, ignored, dsp, trace, red, lim, smp, fam>>
loggerVars == <<cfg, buffer, timer, timeouts, flushing, cbs, batches, wstat,
                fl, pushed, nextId, ignored, dsp, trace>>
queueVars == <<buffer, timer, timeouts, flushing, cbs, batches, wstat>>

\* transport 1 is file-like (async write, flush), transport 2 console-like (write only)
HasFlush(t) == t = 1

WriteBehaviours == [Transports -> {"void", "throw", "async"}]
FlushBehaviours ==
  {fb \in [Transports -> {"absent", "throw", "async"}] :
     \A t \in Transports : (fb[t] = "absent") <=> ~HasFlush(t)}

CtxChoices ==
  {Undefined,
   Obj([k \in {"user", "Token", "safe"} |->
          CASE k = "user" -> Obj([j \in {"password"} |-> Prim("y")])
            [] k = "Token" -> Prim("t")
            [] k = "safe" -> Prim("z")])}

IdleFlush == [pc |-> "idle", q |-> "none", at |-> 0,
              tf |-> [t \in Transports |-> "none"]]

\* a Logger.flush() call whose promise rejected: its locals are gone
RejectedFlush == [IdleFlush EXCEPT !.pc = "rejected"]

\* no Logger.dispose() call yet
IdleDispose == [pc |-> "idle", f |-> 0, td |-> [t \in Transports |-> "none"]]

\* shouldSample not called
IdleSampler == [level |-> "info", rate |-> RateDenom, draw |-> 0, outs |-> <<>>]

\* LogManager as the module is loaded: `let instance: Logger | null = null`
NoFamily == [instance |-> 0, loggers |-> <<>>, written |-> <<>>, built |-> <<>>,
             calls |-> <<>>, console |-> 0, ret |-> 0]

\* the state after `new Logger(cfg)`, but for cfg
InitRest ==
  /\ now = 0
  /\ rl = MakeRateLimiter(0)
  /\ buffer = <<>>
  /\ timer = FALSE
  /\ timeouts = <<>>
  /\ flushing = FALSE
  /\ cbs = <<>>
  /\ batches = <<>>
  /\ wstat = [t \in Transports |-> <<>>]
  /\ fl = [f \in FlushIds |-> IdleFlush]
  /\ pushed = <<>>
  /\ nextId = 1
  /\ ignored = "none"
  /\ red = [extraKeys |-> <<>>,
            input |-> [id |-> 0, level |-> "info", ctx |-> Undefined],
            outs |-> <<>>]
  /\ lim = [maxPerMin |-> 1, calls |-> <<>>, ticks |-> 0]
  /\ smp = IdleSampler
  /\ dsp = IdleDispose
  /\ trace = <<>>
  /\ fam = NoFamily

\* ------------------------------------------------- Logger constructor's callback
\* cfg.transports.map(t => t.write(items)): the writes are invoked in list
\* order; a write that throws ends the map, so the transports after it are
\* not invoked
ThrewBefore(beh, t) == \E u \in Transports : u < t /\ beh[u] = "throw"

WriteStatus(beh, t) ==
  IF ThrewBefore(beh, t) THEN "skipped"
  ELSE CASE beh[t] = "void" -> "ok"
         [] beh[t] = "throw" -> "threw"
         [] beh[t] = "async" -> "pending"

\* the async arrow function up to its await, called by the queue.flush() of owner
FlushFn(items, beh, owner) ==
  /\ batches' = Append(batches, items)
  /\ wstat' = [t \in Transports |-> Append(wstat[t], WriteStatus(beh, t))]
  /\ cbs' = Append(cbs,
               [st |-> IF \E t \in Transports : beh[t] = "throw"
                         THEN "rejected" ELSE "pending",
                owner |-> owner])

\* ---------------------------------------------------------------- queue.ts
\* clearTimeout(this.timer) under `if (this.timer)`: the handle is that of the
\* timeout made last
ClearTimeout ==
  IF timer /\ timeouts # <<>> THEN SubSeq(timeouts, 1, Len(timeouts) - 1)
  ELSE timeouts

\* `if (!this.timer) this.timer = setTimeout(...)` in the push of item
SetTimeout(item) ==
  IF timer THEN timeouts ELSE Append(timeouts, item.id)

\* mutant: the `if (this.flushing) return` line is missing
QueueFlush_noguard(buf, beh, owner) ==
  /\ timer' = FALSE
  /\ timeouts' = ClearTimeout
  /\ IF buf = <<>>
       THEN /\ buffer' = buf
            /\ UNCHANGED <<flushing, cbs, batches, wstat>>
       ELSE /\ flushing' = TRUE
            /\ buffer' = <<>>
            /\ FlushFn(buf, beh, owner)

\* mutant: the timer is cancelled after the two early returns, not before
QueueFlush_lateClear(buf, beh, owner) ==
  IF flushing \/ buf = <<>>
    THEN /\ buffer' = buf
         /\ UNCHANGED <<timer, timeouts, flushing, cbs, batches, wstat>>
    ELSE /\ timer' = FALSE
         /\ timeouts' = ClearTimeout
         /\ flushing' = TRUE
         /\ buffer' = <<>>
         /\ FlushFn(buf, beh, owner)

\* mutant: the `if (this.buffer.length === 0) return` line is missing
QueueFlush_noEmptyCheck(buf, beh, owner) ==
  /\ timer' = FALSE
  /\ timeouts' = ClearTimeout
  /\ IF flushing
       THEN /\ buffer' = buf
            /\ UNCHANGED <<flushing, cbs, batches, wstat>>
       ELSE /\ flushing' = TRUE
            /\ buffer' = <<>>
            /\ FlushFn(buf, beh, owner)

\* AsyncBatchQueue.flush up to its await, called with the buffer holding buf
QueueFlush(buf, beh, owner) ==
  /\ timer' = FALSE
  /\ timeouts' = ClearTimeout
  /\ IF flushing \/ buf = <<>>
       THEN /\ buffer' = buf
            /\ UNCHANGED <<flushing, cbs, batches, wstat>>
       ELSE /\ flushing' = TRUE
            /\ buffer' = <<>>
            /\ FlushFn(buf, beh, owner)

\* mutant: the item is put in front of the buffer (unshift for push)
QueuePush_unshift(item, beh) ==
  LET buf == <<item>> \o buffer
  IN IF Len(buf) >= cfg.batchSize
       THEN QueueFlush(buf, beh, 0)
       ELSE /\ buffer' = buf
            /\ timer' = TRUE
            /\ timeouts' = SetTimeout(item)
            /\ UNCHANGED <<flushing, cbs, batches, wstat>>

\* mutant: the callback is handed the buffer itself, so an item pushed while
\* it is in flight joins the sequence it was handed
QueuePush_shared(item, beh) ==
  IF flushing /\ batches # <<>>
    THEN /\ batches' = [batches EXCEPT ![Len(batches)] = Append(@, item)]
         /\ UNCHANGED <<buffer, timer, timeouts, flushing, cbs, wstat>>
    ELSE LET buf == Append(buffer, item)
         IN IF Len(buf) >= cfg.batchSize
              THEN QueueFlush(buf, beh, 0)
              ELSE /\ buffer' = buf
                   /\ timer' = TRUE
                   /\ timeouts' = SetTimeout(item)
                   /\ UNCHANGED <<flushing, cbs, batches, wstat>>

\* mutant: every push below batchSize sets a new timeout (no `if (!this.timer)`)
QueuePush_rearm(item, beh) ==
  LET buf == Append(buffer, item)
  IN IF Len(buf) >= cfg.batchSize
       THEN QueueFlush(buf, beh, 0)
       ELSE /\ buffer' = buf
            /\ timer' = TRUE
            /\ timeouts' = Append(timeouts, item.id)
            /\ UNCHANGED <<flushing, cbs, batches, wstat>>

\* AsyncBatchQueue.push
QueuePush(item, beh) ==
  LET buf == Append(buffer, item)
  IN IF Len(buf) >= cfg.batchSize
       THEN QueueFlush(buf, beh, 0)
       ELSE /\ buffer' = buf
            /\ timer' = TRUE
            /\ timeouts' = SetTimeout(item)
            /\ UNCHANGED <<flushing, cbs, batches, wstat>>

\* the setTimeout callback
TimerFire(beh) ==
  /\ timeouts # <<>>
  /\ QueueFlush(buffer, beh, 0)
  /\ ignored' = "none"
  /\ UNCHANGED <<otherVars, trace, dsp, cfg, rl, now, fl, pushed, nextId>>

\* a pending write promise settles
WriteSettle(t, b, ok) ==
  /\ b \in DOMAIN wstat[t]
  /\ wstat[t][b] = "pending"
  /\ wstat' = [wstat EXCEPT ![t][b] = IF cbs[b].st = "finished" THEN "done"
                                      ELSE IF ok THEN "ok" ELSE "rejected"]
  /\ ignored' = "none"
  /\ UNCHANGED <<otherVars, trace, dsp, cfg, rl, now, buffer, timer, timeouts, flushing, cbs, batches,
                 fl, pushed, nextId>>

\* mutant: a batch whose write was rejected goes back to the front of the buffer
CallbackSettle_requeue(b) ==
  /\ b \in DOMAIN cbs
  /\ cbs[b].st = "pending"
  /\ \/ /\ \E t \in Transports : wstat[t][b] = "rejected"
        /\ cbs' = [cbs EXCEPT ![b].st = "rejected"]
        /\ buffer' = batches[b] \o buffer
     \/ /\ \A t \in Transports : wstat[t][b] = "ok"
        /\ cbs' = [cbs EXCEPT ![b].st = "resolved"]
        /\ buffer' = buffer
  /\ ignored' = "none"
  /\ UNCHANGED <<otherVars, trace, dsp, cfg, rl, now, timer, timeouts, flushing, batches, wstat, fl,
                 pushed, nextId>>

\* Promise.all over the writes of batch b settles, and the callback with it
CallbackSettle(b) ==
  /\ b \in DOMAIN cbs
  /\ cbs[b].st = "pending"
  /\ \/ /\ \E t \in Transports : wstat[t][b] = "rejected"
        /\ cbs' = [cbs EXCEPT ![b].st = "rejected"]
     \/ /\ \A t \in Transports : wstat[t][b] = "ok"
        /\ cbs' = [cbs EXCEPT ![b].st = "resolved"]
  /\ ignored' = "none"
  /\ UNCHANGED <<otherVars, trace, dsp, cfg, rl, now, buffer, timer, timeouts, flushing, batches, wstat, fl,
                 pushed, nextId>>

\* mutant: the flag is cleared after the await, without try/finally
FlushFinally_noRelease(b) ==
  /\ b \in DOMAIN cbs
  /\ cbs[b].st \in {"resolved", "rejected"}
  /\ flushing' = IF cbs[b].st = "rejected" THEN flushing ELSE FALSE
  /\ cbs' = [cbs EXCEPT ![b] = [st |-> "finished", owner |-> 0]]
  /\ fl' = IF cbs[b].owner = 0 THEN fl
           ELSE [fl EXCEPT ![cbs[b].owner].q = cbs[b].st]
  /\ ignored' = "none"
  /\ wstat' = [t \in Transports |->
                [wstat[t] EXCEPT ![b] = IF @ \in {"ok", "rejected", "threw"} THEN "done" ELSE @]]
  /\ UNCHANGED <<otherVars, trace, dsp, cfg, rl, now, buffer, timer, timeouts, batches, pushed, nextId>>

\* AsyncBatchQueue.flush after its await: the finally block, then the
\* promise of that flush() settles as the callback did; from here on nothing
\* reads the outcome of the callback or of the writes of batch b
FlushFinally(b) ==
  /\ b \in DOMAIN cbs
  /\ cbs[b].st \in {"resolved", "rejected"}
  /\ flushing' = FALSE
  /\ cbs' = [cbs EXCEPT ![b] = [st |-> "finished", owner |-> 0]]
  /\ fl' = IF cbs[b].owner = 0 THEN fl
           ELSE [fl EXCEPT ![cbs[b].owner].q = cbs[b].st]
  /\ ignored' = "none"
  /\ wstat' = [t \in Transports |->
                [wstat[t] EXCEPT ![b] = IF @ \in {"ok", "rejected", "threw"} THEN "done" ELSE @]]
  /\ UNCHANGED <<otherVars, trace, dsp, cfg, rl, now, buffer, timer, timeouts, batches, pushed, nextId>>

\* --------------------------------------------------------------- Logger.ts
IndexOf(level) == CHOOSE i \in DOMAIN LEVELS : LEVELS[i] = level

\* mutant: the gate compares with > instead of >=
Allowed_strict(level) == IndexOf(level) > IndexOf(cfg.level)

Allowed(level) == IndexOf(level) >= IndexOf(cfg.level)

BuildRecord(level, ctx) == [id |-> nextId, ts |-> now, level |-> level, ctx |-> ctx]

\* mutant: the sampler is asked before the rate limiter
Process_sampleFirst(record, draw, beh) ==
  LET rec == IF cfg.redactor THEN Redactor(<<>>, record) ELSE record
      limited == cfg.maxPerMin # 0
      first == IF cfg.redactor THEN <<"redactor">> ELSE <<>>
  IN IF ~ShouldSample(rec.level, cfg.rate, draw)
       THEN /\ trace' = first \o <<"shouldSample">>
            /\ UNCHANGED <<rl, queueVars, pushed>>
     ELSE IF limited /\ ~RateLimiterResult(rl, now, cfg.maxPerMin)
       THEN /\ trace' = first \o <<"shouldSample", "rateLimiter">>
            /\ rl' = RateLimiterCall(rl, now)
            /\ UNCHANGED <<queueVars, pushed>>
     ELSE /\ trace' = first \o <<"shouldSample">>
                        \o (IF limited THEN <<"rateLimiter">> ELSE <<>>) \o <<"push">>
          /\ rl' = IF limited THEN RateLimiterCall(rl, now) ELSE rl
          /\ QueuePush(rec, beh)
          /\ pushed' = Append(pushed, rec)

\* mutant: the redactor's result is dropped (`record =` is missing)
Process_unredacted(record, draw, beh) ==
  LET rec == record
      limited == cfg.maxPerMin # 0
      first == (IF cfg.redactor THEN <<"redactor">> ELSE <<>>)
                 \o (IF limited THEN <<"rateLimiter">> ELSE <<>>)
  IN /\ rl' = IF limited THEN RateLimiterCall(rl, now) ELSE rl
     /\ IF limited /\ ~RateLimiterResult(rl, now, cfg.maxPerMin)
          THEN /\ trace' = first
               /\ UNCHANGED <<queueVars, pushed>>
        ELSE IF ~ShouldSample(rec.level, cfg.rate, draw)
          THEN /\ trace' = first \o <<"shouldSample">>
               /\ UNCHANGED <<queueVars, pushed>>
        ELSE /\ trace' = first \o <<"shouldSample", "push">>
             /\ QueuePush(rec, beh)
             /\ pushed' = Append(pushed, rec)

\* mutant: push awaits a synchronous flush callback, so a write that throws
\* throws out of the log call
Process_propagate(record, draw, beh) ==
  LET rec == IF cfg.redactor THEN Redactor(<<>>, record) ELSE record
      limited == cfg.maxPerMin # 0
      first == (IF cfg.redactor THEN <<"redactor">> ELSE <<>>)
                 \o (IF limited THEN <<"rateLimiter">> ELSE <<>>)
      thrown == /\ Len(buffer) + 1 >= cfg.batchSize
                /\ ~flushing
                /\ \E t \in Transports : beh[t] = "throw"
  IN /\ rl' = IF limited THEN RateLimiterCall(rl, now) ELSE rl
     /\ IF limited /\ ~RateLimiterResult(rl, now, cfg.maxPerMin)
          THEN /\ trace' = first
               /\ UNCHANGED <<queueVars, pushed>>
        ELSE IF ~ShouldSample(rec.level, cfg.rate, draw)
          THEN /\ trace' = first \o <<"shouldSample">>
               /\ UNCHANGED <<queueVars, pushed>>
        ELSE /\ trace' = first \o <<"shouldSample", "push">>
                            \o (IF thrown THEN <<"throw">> ELSE <<>>)
             /\ QueuePush(rec, beh)
             /\ pushed' = Append(pushed, rec)

\* Logger.process
Process(record, draw, beh) ==
  LET rec == IF cfg.redactor THEN Redactor(<<>>, record) ELSE record
      limited == cfg.maxPerMin # 0
      first == (IF cfg.redactor THEN <<"redactor">> ELSE <<>>)
                 \o (IF limited THEN <<"rateLimiter">> ELSE <<>>)
  IN /\ rl' = IF limited THEN RateLimiterCall(rl, now) ELSE rl
     /\ IF limited /\ ~RateLimiterResult(rl, now, cfg.maxPerMin)
          THEN /\ trace' = first
               /\ UNCHANGED <<queueVars, pushed>>
        ELSE IF ~ShouldSample(rec.level, cfg.rate, draw)
          THEN /\ trace' = first \o <<"shouldSample">>
               /\ UNCHANGED <<queueVars, pushed>>
        ELSE /\ trace' = first \o <<"shouldSample", "push">>
             /\ QueuePush(rec, beh)
             /\ pushed' = Append(pushed, rec)

\* mutant: a call below the threshold is still counted by the rate limiter
LogCall_counted(level, ctx, draw, beh) ==
  /\ ignored' = IF Allowed(level) THEN "none" ELSE level
  /\ IF Allowed(level)
       THEN /\ Process(BuildRecord(level, ctx), draw, beh)
            /\ nextId' = nextId + 1
       ELSE /\ trace' = <<>>
            /\ rl' = IF cfg.maxPerMin # 0 THEN RateLimiterCall(rl, now) ELSE rl
            /\ UNCHANGED <<queueVars, pushed, nextId>>
  /\ UNCHANGED <<otherVars, dsp, cfg, now, fl>>

\* Logger.trace / debug / info / warn / error / fatal
LogCall(level, ctx, draw, beh) ==
  /\ ignored' = IF Allowed(level) THEN "none" ELSE level
  /\ IF Allowed(level)
       THEN /\ Process(BuildRecord(level, ctx), draw, beh)
            /\ nextId' = nextId + 1
       ELSE /\ trace' = <<>>
            /\ UNCHANGED <<rl, queueVars, pushed, nextId>>
  /\ UNCHANGED <<otherVars, dsp, cfg, now, fl>>

\* mutant: process calls the rate limiter before the redactor
LogCallThrowing_limitFirst(level, ctx) ==
  /\ cfg.redactor
  /\ ignored' = IF Allowed(level) THEN "none" ELSE level
  /\ IF Allowed(level)
       THEN /\ trace' = (IF cfg.maxPerMin # 0 THEN <<"rateLimiter">> ELSE <<>>)
                         \o <<"redactor", "throw">>
            /\ rl' = IF cfg.maxPerMin # 0 THEN RateLimiterCall(rl, now) ELSE rl
            /\ nextId' = nextId + 1
            /\ UNCHANGED <<queueVars, pushed>>
       ELSE /\ trace' = <<>>
            /\ UNCHANGED <<rl, queueVars, pushed, nextId>>
  /\ UNCHANGED <<otherVars, dsp, cfg, now, fl>>

\* a level method called with a record on which the configured redactor
\* throws: neither process nor the level method catches, so the call ends
\* at the first statement of process ("throw" in trace: the call threw)
LogCallThrowing(level, ctx) ==
  /\ cfg.redactor
  /\ ignored' = IF Allowed(level) THEN "none" ELSE level
  /\ IF Allowed(level)
       THEN /\ trace' = <<"redactor", "throw">>
            /\ nextId' = nextId + 1
            /\ UNCHANGED <<rl, queueVars, pushed>>
       ELSE /\ trace' = <<>>
            /\ UNCHANGED <<rl, queueVars, pushed, nextId>>
  /\ UNCHANGED <<otherVars, dsp, cfg, now, fl>>

\* Logger.setLevel
SetLevel(level) ==
  /\ cfg' = [cfg EXCEPT !.level = level]
  /\ ignored' = "none"
  /\ UNCHANGED <<otherVars, trace, dsp, rl, now, queueVars, fl, pushed, nextId>>

\* Logger.flush up to its first await, called by the application or by dispose
FlushStart(f, beh) ==
  /\ fl[f].pc = "idle"
  /\ \A g \in FlushIds : g < f => fl[g].pc # "idle"
  /\ QueueFlush(buffer, beh, f)
  /\ fl' = [fl EXCEPT ![f] =
              [pc |-> "awaitQueue",
               q |-> IF flushing \/ buffer = <<>> THEN "resolved" ELSE "pending",
               at |-> Len(pushed),
               tf |-> [t \in Transports |-> "none"]]]
  /\ ignored' = "none"
  /\ UNCHANGED <<otherVars, trace, cfg, rl, now, pushed, nextId>>

\* logger.flush() called by the application
FlushCall(f, beh) ==
  /\ FlushStart(f, beh)
  /\ UNCHANGED dsp

FlushThrewBefore(fbeh, t) ==
  \E u \in Transports : u < t /\ HasFlush(u) /\ fbeh[u] = "throw"

\* Logger.flush after `await this.queue.flush()`: a rejection ends the call,
\* otherwise t.flush() is invoked on the transports in list order
FlushTransports(f, fbeh) ==
  /\ fl[f].pc = "awaitQueue"
  /\ fl[f].q \in {"resolved", "rejected"}
  /\ IF fl[f].q = "rejected"
       THEN fl' = [fl EXCEPT ![f] = RejectedFlush]
       ELSE LET st == [t \in Transports |->
                         IF ~HasFlush(t) \/ FlushThrewBefore(fbeh, t) THEN "none"
                         ELSE IF fbeh[t] = "throw" THEN "threw" ELSE "pending"]
                threw == \E t \in Transports : st[t] = "threw"
            IN fl' = [fl EXCEPT ![f] =
                          IF threw THEN RejectedFlush
                          ELSE [@ EXCEPT !.tf = st, !.pc = "awaitTransports"]]
  /\ ignored' = "none"
  /\ UNCHANGED <<otherVars, trace, dsp, cfg, rl, now, queueVars, pushed, nextId>>

\* a pending transport flush promise settles
TransportFlushSettle(f, t, ok) ==
  /\ fl[f].tf[t] = "pending"
  /\ fl' = [fl EXCEPT ![f].tf[t] = IF ok THEN "ok" ELSE "rejected"]
  /\ ignored' = "none"
  /\ UNCHANGED <<otherVars, trace, dsp, cfg, rl, now, queueVars, pushed, nextId>>

\* Logger.flush after its second await
FlushSettle(f) ==
  /\ fl[f].pc = "awaitTransports"
  /\ \/ /\ \E t \in Transports : fl[f].tf[t] = "rejected"
        /\ fl' = [fl EXCEPT ![f] = RejectedFlush]
     \/ /\ \A t \in Transports : fl[f].tf[t] \in {"none", "ok"}
        /\ fl' = [fl EXCEPT ![f].pc = "resolved"]
  /\ ignored' = "none"
  /\ UNCHANGED <<otherVars, trace, dsp, cfg, rl, now, queueVars, pushed, nextId>>

\* transport 1 exposes dispose as well, transport 2 does not
HasDispose(t) == t = 1

DisposeBehaviours ==
  {db \in [Transports -> {"absent", "throw", "async"}] :
     \A t \in Transports : (db[t] = "absent") <=> ~HasDispose(t)}

DisposeThrewBefore(dbeh, t) ==
  \E u \in Transports : u < t /\ HasDispose(u) /\ dbeh[u] = "throw"

disposeRest == <<otherVars, trace, cfg, rl, now, queueVars, fl, pushed, nextId>>

\* Logger.dispose up to its await: this.flush() runs up to its first await
DisposeCall(f, beh) ==
  /\ dsp.pc = "idle"
  /\ FlushStart(f, beh)
  /\ dsp' = [dsp EXCEPT !.pc = "awaitFlush", !.f = f]

\* Logger.dispose after `await this.flush()`: a rejection ends the call,
\* otherwise t.dispose() is invoked on the transports in list order
DisposeTransports(dbeh) ==
  /\ dsp.pc = "awaitFlush"
  /\ fl[dsp.f].pc \in {"resolved", "rejected"}
  /\ IF fl[dsp.f].pc = "rejected"
       THEN dsp' = [dsp EXCEPT !.pc = "rejected"]
       ELSE LET st == [t \in Transports |->
                         IF ~HasDispose(t) \/ DisposeThrewBefore(dbeh, t) THEN "none"
                         ELSE IF dbeh[t] = "throw" THEN "threw" ELSE "pending"]
                threw == \E t \in Transports : st[t] = "threw"
            IN dsp' = [dsp EXCEPT !.td = st,
                                  !.pc = IF threw THEN "rejected" ELSE "awaitDispose"]
  /\ ignored' = "none"
  /\ UNCHANGED disposeRest

\* a pending transport dispose promise settles
TransportDisposeSettle(t, ok) ==
  /\ dsp.td[t] = "pending"
  /\ dsp' = [dsp EXCEPT !.td[t] = IF ok THEN "ok" ELSE "rejected"]
  /\ ignored' = "none"
  /\ UNCHANGED disposeRest

\* Logger.dispose after its second await
DisposeSettle ==
  /\ dsp.pc = "awaitDispose"
  /\ \/ /\ \E t \in Transports : dsp.td[t] = "rejected"
        /\ dsp' = [dsp EXCEPT !.pc = "rejected"]
     \/ /\ \A t \in Transports : dsp.td[t] \in {"none", "ok"}
        /\ dsp' = [dsp EXCEPT !.pc = "resolved"]
  /\ ignored' = "none"
  /\ UNCHANGED disposeRest

\* ---------------------------------------------------------------------------
\* Spec: one Logger as the tests build it (level debug, no redactor, no rate
\* limit, sampling rate 1) under every interleaving of log calls, timer
\* firings, flush() calls and transport completions; each transport's write
\* returns void, throws, or returns a promise that resolves or rejects.
Draws == 0..(RateDenom - 1)

Init ==
  /\ cfg \in [level : {"debug"}, batchSize : 1..MaxBatch, redactor : {FALSE},
              rate : {RateDenom}, maxPerMin : {0}]
  /\ InitRest

Next ==
  \/ \E draw \in Draws, beh \in WriteBehaviours :
        nextId <= MaxCalls /\ LogCall("info", Undefined, draw, beh)
  \/ \E beh \in WriteBehaviours : TimerFire(beh)
  \/ \E t \in Transports, b \in 1..MaxCalls, ok \in BOOLEAN : WriteSettle(t, b, ok)
  \/ \E b \in 1..MaxCalls : CallbackSettle(b)
  \/ \E b \in 1..MaxCalls : FlushFinally(b)
  \/ \E f \in FlushIds, beh \in WriteBehaviours : FlushCall(f, beh)
  \/ \E f \in FlushIds, fbeh \in FlushBehaviours : FlushTransports(f, fbeh)
  \/ \E f \in FlushIds, t \in Transports, ok \in BOOLEAN : TransportFlushSettle(f, t, ok)
  \/ \E f \in FlushIds : FlushSettle(f)

Spec == Init /\ [][Next]_vars

\* FairSpec: Spec where armed timers fire and every write, callback and
\* queue.flush() continuation that can complete does; log calls and flush()
\* calls stay up to the application.
FairSpec ==
  /\ Spec
  /\ WF_vars(\E beh \in WriteBehaviours : TimerFire(beh))
  /\ \A t \in Transports, b \in 1..MaxCalls :
       WF_vars(\E ok \in BOOLEAN : WriteSettle(t, b, ok))
  /\ \A b \in 1..MaxCalls : WF_vars(CallbackSettle(b))
  /\ \A b \in 1..MaxCalls : WF_vars(FlushFinally(b))

\* ---------------------------------------------------------------------------
\* SpecDispose: the Logger of Spec, disposed of once at any moment.
NextDispose ==
  \/ \E draw \in Draws, beh \in WriteBehaviours :
        nextId <= MaxCalls /\ LogCall("info", Undefined, draw, beh)
  \/ \E beh \in WriteBehaviours : TimerFire(beh)
  \/ \E t \in Transports, b \in 1..MaxCalls, ok \in BOOLEAN : WriteSettle(t, b, ok)
  \/ \E b \in 1..MaxCalls : CallbackSettle(b)
  \/ \E b \in 1..MaxCalls : FlushFinally(b)
  \/ \E f \in FlushIds, beh \in WriteBehaviours : DisposeCall(f, beh)
  \/ \E f \in FlushIds, fbeh \in FlushBehaviours : FlushTransports(f, fbeh)
  \/ \E f \in FlushIds, t \in Transports, ok \in BOOLEAN : TransportFlushSettle(f, t, ok)
  \/ \E f \in FlushIds : FlushSettle(f)
  \/ \E dbeh \in DisposeBehaviours : DisposeTransports(dbeh)
  \/ \E t \in Transports, ok \in BOOLEAN : TransportDisposeSettle(t, ok)
  \/ DisposeSettle

SpecDispose == Init /\ [][NextDispose]_vars

\* ---------------------------------------------------------------------------
\* SpecGate: one Logger over transports that behave like the tests'
\* MockTransport (write returns void), called at every level under every
\* threshold.
MockBehaviours == {[t \in Transports |-> "void"]}

InitGate ==
  /\ cfg \in [level : InitLevels, batchSize : 1..MaxBatch, redactor : {FALSE},
              rate : {RateDenom}, maxPerMin : {0}]
  /\ InitRest

NextGate ==
  \/ \E level \in Levels, draw \in Draws, beh \in MockBehaviours :
        nextId <= MaxCalls /\ LogCall(level, Undefined, draw, beh)
  \/ \E level \in Levels : SetLevel(level)
  \/ \E beh \in MockBehaviours : TimerFire(beh)
  \/ \E b \in 1..MaxCalls : CallbackSettle(b)
  \/ \E b \in 1..MaxCalls : FlushFinally(b)

SpecGate == InitGate /\ [][NextGate]_vars

\* ---------------------------------------------------------------------------
\* SpecContext: one Logger over the same transports, with or without the
\* redactor of makeRedactor(), called with and without a context.
InitContext ==
  /\ cfg \in [level : {"debug"}, batchSize : 1..MaxBatch, redactor : BOOLEAN,
              rate : {RateDenom}, maxPerMin : {0}]
  /\ InitRest

NextContext ==
  \/ \E level \in {"info", "error"}, ctx \in CtxChoices, draw \in Draws,
        beh \in MockBehaviours :
        nextId <= MaxCalls /\ LogCall(level, ctx, draw, beh)
  \/ \E beh \in MockBehaviours : TimerFire(beh)
  \/ \E b \in 1..MaxCalls : CallbackSettle(b)
  \/ \E b \in 1..MaxCalls : FlushFinally(b)

SpecContext == InitContext /\ [][NextContext]_vars

\* ---------------------------------------------------------------------------
\* SpecRedact: makeRedactor(extraKeys) applied to a record, and once more to
\* its own result, for every context of at most MaxNodes values.
RedactKeys == <<"password", "Token", "safe", "Custom">>
ExtraKeyChoices == {<<>>, <<"CUSTOM">>}
Prims == {Prim("x")}

\* the strictly increasing index sequences of length l into RedactKeys
KeyChoices(l) ==
  {ks \in [1..l -> DOMAIN RedactKeys] : \A i, j \in 1..l : i < j => ks[i] < ks[j]}

ObjOf(ks, vals) ==
  Obj([k \in {RedactKeys[ks[i]] : i \in DOMAIN ks} |->
         vals[CHOOSE i \in DOMAIN ks : RedactKeys[ks[i]] = k]])

\* ValuesOfSize(n): the values made of exactly n primitives, arrays and objects;
\* Forests(n, l): the sequences of l values with n of them in all
RECURSIVE ValuesOfSize(_), Forests(_, _)
Forests(n, l) ==
  IF l = 0 THEN (IF n = 0 THEN {<<>>} ELSE {})
  ELSE UNION {{<<v>> \o f : v \in ValuesOfSize(k), f \in Forests(n - k, l - 1)} :
              k \in 1..(n - (l - 1))}

ValuesOfSize(n) ==
  IF n < 1 THEN {}
  ELSE (IF n = 1 THEN Prims ELSE {})
       \cup UNION {{Arr(f) : f \in Forests(n - 1, l)} : l \in 0..MaxArr}
       \cup UNION {{ObjOf(ks, f) : ks \in KeyChoices(l), f \in Forests(n - 1, l)} :
                   l \in 0..Len(RedactKeys)}

Contexts ==
  {Undefined} \cup {v \in UNION {ValuesOfSize(n) : n \in 1..MaxNodes} : v.tag = "obj"}

\* no Logger at work
IdleLogger ==
  /\ cfg = [level |-> "debug", batchSize |-> 1, redactor |-> FALSE,
            rate |-> RateDenom, maxPerMin |-> 0]
  /\ buffer = <<>>
  /\ timer = FALSE
  /\ timeouts = <<>>
  /\ flushing = FALSE
  /\ cbs = <<>>
  /\ batches = <<>>
  /\ wstat = [t \in Transports |-> <<>>]
  /\ fl = [f \in FlushIds |-> IdleFlush]
  /\ pushed = <<>>
  /\ nextId = 1
  /\ ignored = "none"
  /\ dsp = IdleDispose
  /\ trace = <<>>

InitRedact ==
  /\ IdleLogger
  /\ now = 0
  /\ rl = MakeRateLimiter(0)
  /\ lim = [maxPerMin |-> 1, calls |-> <<>>, ticks |-> 0]
  /\ red \in [extraKeys : ExtraKeyChoices,
               input : [id : {1}, level : {"info"}, ctx : Contexts],
               outs : {<<>>}]
  /\ smp = IdleSampler
  /\ fam = NoFamily

\* redactor(record)
RedactOnce ==
  /\ red.outs = <<>>
  /\ red' = [red EXCEPT !.outs = <<Redactor(red.extraKeys, red.input)>>]
  /\ UNCHANGED <<loggerVars, rl, now, lim, smp, fam>>

\* redactor(redactor(record))
RedactAgain ==
  /\ Len(red.outs) = 1
  /\ red' = [red EXCEPT !.outs = Append(red.outs, Redactor(red.extraKeys, red.outs[1]))]
  /\ UNCHANGED <<loggerVars, rl, now, lim, smp, fam>>

NextRedact ==
  \/ RedactOnce
  \/ RedactAgain

SpecRedact == InitRedact /\ [][NextRedact]_vars

\* ---------------------------------------------------------------------------
\* SpecRate: one limiter of makeRateLimiter(maxPerMin), called at times that
\* fall short of, hit and pass the end of its window.
ClockSteps == {1, WINDOW_MS - 1}

InitRate ==
  /\ IdleLogger
  /\ now = 0
  /\ rl = MakeRateLimiter(now)
  /\ lim \in [maxPerMin : 1..MaxPerMin, calls : {<<>>}, ticks : {0}]
  /\ red = [extraKeys |-> <<>>,
            input |-> [id |-> 0, level |-> "info", ctx |-> Undefined],
            outs |-> <<>>]
  /\ smp = IdleSampler
  /\ fam = NoFamily

\* limiter()
RateCall ==
  /\ Len(lim.calls) < MaxRateCalls
  /\ rl' = RateLimiterCall(rl, now)
  /\ lim' = [lim EXCEPT !.calls =
                Append(@, [t |-> now, ok |-> RateLimiterResult(rl, now, lim.maxPerMin)])]
  /\ UNCHANGED <<loggerVars, now, red, smp, fam>>

\* Date.now() moves on by d ms
RateTick(d) ==
  /\ lim.ticks < MaxTicks
  /\ now' = now + d
  /\ lim' = [lim EXCEPT !.ticks = @ + 1]
  /\ UNCHANGED <<loggerVars, rl, red, smp, fam>>

NextRate ==
  \/ RateCall
  \/ \E d \in ClockSteps : RateTick(d)

SpecRate == InitRate /\ [][NextRate]_vars

\* ---------------------------------------------------------------------------
\* SpecCap: one Logger with rateLimit.maxPerMin set, over the tests'
\* transports, called while Date.now() moves up to and over the end of the
\* limiter's window.
InitCap ==
  /\ cfg \in [level : {"debug"}, batchSize : 1..MaxBatch, redactor : {FALSE},
              rate : {RateDenom}, maxPerMin : 1..MaxPerMin]
  /\ InitRest

NextCap ==
  \/ \E draw \in Draws, beh \in MockBehaviours :
        nextId <= MaxCalls + MaxPerMin /\ LogCall("info", Undefined, draw, beh)
  \/ \E d \in ClockSteps : RateTick(d)
  \/ \E beh \in MockBehaviours : TimerFire(beh)
  \/ \E b \in 1..(MaxCalls + MaxPerMin) : CallbackSettle(b)
  \/ \E b \in 1..(MaxCalls + MaxPerMin) : FlushFinally(b)

SpecCap == InitCap /\ [][NextCap]_vars

\* ---------------------------------------------------------------------------
\* SpecBatch: the Logger of SpecGate at level debug, called more often than a
\* batch can hold while its callback is in flight.
NextBatch ==
  \/ \E draw \in Draws, beh \in MockBehaviours :
        nextId <= MaxCalls + 2 /\ LogCall("info", Undefined, draw, beh)
  \/ \E beh \in MockBehaviours : TimerFire(beh)
  \/ \E b \in 1..(MaxCalls + 2) : CallbackSettle(b)
  \/ \E b \in 1..(MaxCalls + 2) : FlushFinally(b)

SpecBatch == Init /\ [][NextBatch]_vars

\* ---------------------------------- ConsoleTransport under a patched console
\* ConsoleTransport.write picks console.error for error and fatal,
\* console.warn for warn, console.info for info and console.debug otherwise;
\* patchConsole has made these self.error, self.warn, self.info, self.debug
EchoLevel(level) ==
  CASE level \in {"error", "fatal"} -> "error"
    [] level = "warn" -> "warn"
    [] level = "info" -> "info"
    [] OTHER -> "debug"

\* the records built by the log calls that ConsoleTransport.write(items)
\* makes through the patched console, the first of them with id first: one
\* per item that passes the gate, with no context (the patched functions
\* pass only a message)
RECURSIVE Echoes(_, _)
Echoes(items, first) ==
  IF items = <<>> THEN <<>>
  ELSE LET level == EchoLevel(Head(items).level)
       IN IF Allowed(level)
            THEN <<[id |-> first, ts |-> now, level |-> level, ctx |-> Undefined]>>
                   \o Echoes(Tail(items), first + 1)
            ELSE Echoes(Tail(items), first)

\* AsyncBatchQueue.flush up to its await, with the buffer holding buf, on a
\* Logger made with patchConsole: true whose transport 2 is ConsoleTransport
\* (no redactor, no rate limit, sampling rate 1): the write of transport 2
\* runs inside the callback, while flushing is set, and each record it
\* echoes is pushed; a push that reaches batchSize calls flush(), which
\* clears the timer and returns at `if (this.flushing) return`
ConsoleFlush(buf, first, owner) ==
  IF flushing \/ buf = <<>>
    THEN /\ timer' = FALSE
         /\ timeouts' = ClearTimeout
         /\ buffer' = buf
         /\ UNCHANGED <<flushing, cbs, batches, wstat>>
    ELSE LET es == Echoes(buf, first)
             armed == es # <<>> /\ Len(es) < cfg.batchSize
         IN /\ flushing' = TRUE
            /\ FlushFn(buf, [t \in Transports |-> "void"], owner)
            /\ buffer' = es
            /\ timer' = armed
            /\ timeouts' = IF armed THEN Append(ClearTimeout, es[1].id) ELSE ClearTimeout

\* the records pushed by the writes of a ConsoleFlush
EchoesOf(buf, first) ==
  IF flushing \/ buf = <<>> THEN <<>> ELSE Echoes(buf, first)

\* a level method called by the application, with a context, on that Logger
EchoLogCall(level, ctx) ==
  /\ Allowed(level)
  /\ LET record == BuildRecord(level, ctx)
         buf == Append(buffer, record)
     IN IF Len(buf) >= cfg.batchSize
          THEN /\ ConsoleFlush(buf, nextId + 1, 0)
               /\ pushed' = Append(pushed, record) \o EchoesOf(buf, nextId + 1)
               /\ nextId' = nextId + 1 + Len(EchoesOf(buf, nextId + 1))
          ELSE /\ buffer' = buf
               /\ timer' = TRUE
               /\ timeouts' = SetTimeout(record)
               /\ pushed' = Append(pushed, record)
               /\ nextId' = nextId + 1
               /\ UNCHANGED <<flushing, cbs, batches, wstat>>
  /\ trace' = <<"shouldSample", "push">>
  /\ ignored' = "none"
  /\ UNCHANGED <<otherVars, dsp, cfg, rl, now, fl>>

\* the setTimeout callback on that Logger
EchoTimerFire ==
  /\ timeouts # <<>>
  /\ ConsoleFlush(buffer, nextId, 0)
  /\ pushed' = pushed \o EchoesOf(buffer, nextId)
  /\ nextId' = nextId + Len(EchoesOf(buffer, nextId))
  /\ trace' = IF EchoesOf(buffer, nextId) = <<>> THEN trace
              ELSE <<"shouldSample", "push">>
  /\ ignored' = "none"
  /\ UNCHANGED <<otherVars, dsp, cfg, rl, now, fl>>

\* SpecEcho: the development setup of the README (patchConsole: true,
\* ConsoleTransport among the transports); the application logs with a
\* context while fewer than MaxCalls + 1 records were built, timers fire and
\* flushes complete. The records are cut off at MaxCalls + 5.
NextEcho ==
  \/ \E level \in {"debug", "info", "error"} :
        /\ nextId <= MaxCalls + 1
        /\ EchoLogCall(level, Obj([k \in {"safe"} |-> Prim("z")]))
  \/ nextId + Len(buffer) <= MaxCalls + 6 /\ EchoTimerFire
  \/ \E b \in 1..(MaxCalls + 5) : CallbackSettle(b)
  \/ \E b \in 1..(MaxCalls + 5) : FlushFinally(b)

SpecEcho == Init /\ [][NextEcho]_vars

\* SpecTimer: SpecBatch with batch sizes up to MaxBatch + 1, so that a push can
\* find a timeout pending and leave the buffer below batchSize
InitTimer ==
  /\ cfg \in [level : {"debug"}, batchSize : 1..(MaxBatch + 1), redactor : {FALSE},
              rate : {RateDenom}, maxPerMin : {0}]
  /\ InitRest

SpecTimer == InitTimer /\ [][NextBatch]_vars

\* ---------------------------------------------------------------------------
\* SpecSample: shouldSample(level, rate) called again and again for every
\* level, every rate from 0 to 1 and every value of Math.random().
SampleRates == 0..RateDenom

InitSample ==
  /\ IdleLogger
  /\ now = 0
  /\ rl = MakeRateLimiter(0)
  /\ lim = [maxPerMin |-> 1, calls |-> <<>>, ticks |-> 0]
  /\ red = [extraKeys |-> <<>>,
            input |-> [id |-> 0, level |-> "info", ctx |-> Undefined],
            outs |-> <<>>]
  /\ fam = NoFamily
  /\ smp \in [level : Levels, rate : SampleRates, draw : {0}, outs : {<<>>}]

\* shouldSample(level, rate), with Math.random() returning draw
SampleCall(draw) ==
  /\ Len(smp.outs) < MaxSamples
  /\ smp' = [smp EXCEPT !.draw = draw,
                        !.outs = Append(@, [draw |-> draw,
                                            ok |-> ShouldSample(smp.level, smp.rate, draw)])]
  /\ UNCHANGED <<loggerVars, rl, now, red, lim, fam>>

NextSample ==
  \E draw \in Draws : SampleCall(draw)

SpecSample == InitSample /\ [][NextSample]_vars

\* ---------------------------------------------------------------------------
\* SpecPipeline: one Logger at threshold info with every combination of
\* redactor, rate limit and sampling rate, over the tests' transports, called
\* below, at and above the threshold.
InitPipeline ==
  /\ cfg \in [level : {"info"}, batchSize : 1..MaxBatch, redactor : BOOLEAN,
              rate : SampleRates, maxPerMin : 0..MaxPerMin]
  /\ InitRest

NextPipeline ==
  \/ \E level \in {"debug", "info", "error"}, ctx \in CtxChoices, draw \in Draws,
        beh \in MockBehaviours :
        nextId <= MaxCalls + 1 /\ LogCall(level, ctx, draw, beh)
  \/ \E beh \in MockBehaviours : TimerFire(beh)
  \/ \E b \in 1..(MaxCalls + 1) : CallbackSettle(b)
  \/ \E b \in 1..(MaxCalls + 1) : FlushFinally(b)

SpecPipeline == InitPipeline /\ [][NextPipeline]_vars

\* SpecThrow: a Logger with a redactor and a rate limit; on some records the
\* redactor throws
InitThrow ==
  /\ cfg \in [level : {"info"}, batchSize : 1..MaxBatch, redactor : {TRUE},
              rate : {RateDenom}, maxPerMin : 1..MaxPerMin]
  /\ InitRest

NextThrow ==
  \/ NextPipeline
  \/ \E level \in {"debug", "info", "error"}, ctx \in CtxChoices :
        nextId <= MaxCalls + 1 /\ LogCallThrowing(level, ctx)

SpecThrow == InitThrow /\ [][NextThrow]_vars

\* ---------------------------------------------------------------------------
\* LogManager.ts and the Loggers it hands out: the registry, and every Logger
\* made by initLogger, getLogger(ns) or child, each with a configuration and
\* a queue of its own, over transports that behave like the tests'
\* MockTransport.
Str(chars) == [tag |-> "str", val |-> chars]

\* whether an optional string counts as true in a condition
Truthy(v) == v # Undefined /\ v.val # <<>>

Suffixes == {Str(<<>>), Str(<<"a">>), Str(<<"b">>)}
CorrelationIds == {Undefined, Str(<<"x">>)}
FamilyLevels == {"debug", "error"}
FamilyConfigs ==
  [level : {"debug"}, namespace : {Undefined, Str(<<"r">>)},
   correlationId : {Undefined}, batchSize : {2}, maxPerMin : {0},
   patchConsole : {FALSE}]

\* configurations with rateLimit.maxPerMin set
LimitedConfigs ==
  [level : {"debug"}, namespace : {Undefined}, correlationId : {Undefined},
   batchSize : {2}, maxPerMin : 1..MaxPerMin, patchConsole : {FALSE}]

\* configurations with patchConsole: true
PatchedConfigs ==
  [level : {"debug"}, namespace : {Undefined}, correlationId : {Undefined},
   batchSize : {2}, maxPerMin : {0}, patchConsole : {TRUE}]

famRest == <<loggerVars, rl, now, red, lim, smp>>

\* new Logger(c): the configuration is copied, the queue starts empty, the
\* rate limiter (if c has rateLimit: maxPerMin is not 0) is made on the spot;
\* parent is the Logger whose child() made it (0: none)
NewLogger(c, parent) ==
  [cfg |-> c, parent |-> parent, buffer |-> <<>>, timer |-> FALSE, flushing |-> FALSE,
   rl |-> IF c.maxPerMin # 0 THEN MakeRateLimiter(now) ELSE Undefined]

\* `if (cfg.patchConsole) this.patchConsole()` at the end of the constructor
\* of Logger n: the Logger that console.log/info/warn/error/debug call from
\* then on (0: the console is as the platform made it)
PatchConsole(c, n) == IF c.patchConsole THEN n ELSE fam.console

\* mutant: the suffix comes first
ChildNamespace_swapped(c, s) ==
  IF Truthy(c.namespace) THEN Str(s.val \o <<":">> \o c.namespace.val) ELSE s

\* the namespace Logger.child(s) gives to the child of a Logger configured by c
ChildNamespace(c, s) ==
  IF Truthy(c.namespace) THEN Str(c.namespace.val \o <<":">> \o s.val) ELSE s

\* mutant: the child takes over the parent's limiter state (count and window)
ChildOf_inheritWindow(i, s) ==
  LET c == fam.loggers[i].cfg
  IN [NewLogger([c EXCEPT !.namespace = ChildNamespace(c, s)], i)
        EXCEPT !.rl = fam.loggers[i].rl]

\* Logger.child(s) called on Logger i
ChildOf(i, s) ==
  LET c == fam.loggers[i].cfg
  IN NewLogger([c EXCEPT !.namespace = ChildNamespace(c, s)], i)

\* mutant: initLogger keeps a root that is there already
InitLogger_keepFirst(c) ==
  LET n == Len(fam.loggers) + 1
      tc == [level |-> c.level, namespace |-> c.namespace,
             correlationId |-> c.correlationId, batchSize |-> c.batchSize,
             maxPerMin |-> c.maxPerMin, patchConsole |-> c.patchConsole,
             transports |-> n]
  IN /\ n <= MaxLoggers
     /\ fam' = [fam EXCEPT !.loggers = Append(@, NewLogger(tc, 0)),
                           !.console = PatchConsole(tc, n),
                           !.instance = IF @ = 0 THEN n ELSE @,
                           !.ret = IF fam.instance = 0 THEN n ELSE fam.instance]
     /\ UNCHANGED famRest

\* initLogger(c); the transports array of the call is a new object, named by
\* the number of the Logger made
InitLogger(c) ==
  LET n == Len(fam.loggers) + 1
      tc == [level |-> c.level, namespace |-> c.namespace,
             correlationId |-> c.correlationId, batchSize |-> c.batchSize,
             maxPerMin |-> c.maxPerMin, patchConsole |-> c.patchConsole,
             transports |-> n]
  IN /\ n <= MaxLoggers
     /\ fam' = [fam EXCEPT !.loggers = Append(@, NewLogger(tc, 0)),
                           !.console = PatchConsole(tc, n),
                           !.instance = n,
                           !.ret = n]
     /\ UNCHANGED famRest

\* mutant: getLogger makes a root when there is none
GetLogger_lazy(ns) ==
  /\ IF fam.instance = 0
       THEN fam' = [fam EXCEPT !.loggers = Append(@, NewLogger(
                                   [level |-> "debug", namespace |-> Undefined,
                                    correlationId |-> Undefined, batchSize |-> 2,
                                    maxPerMin |-> 0, patchConsole |-> FALSE,
                                    transports |-> Len(fam.loggers) + 1], 0)),
                               !.instance = Len(fam.loggers) + 1,
                               !.ret = Len(fam.loggers) + 1]
     ELSE IF Truthy(ns)
       THEN /\ Len(fam.loggers) < MaxLoggers
            /\ fam' = [fam EXCEPT !.loggers = Append(@, ChildOf(fam.instance, ns)),
                                  !.console = PatchConsole(ChildOf(fam.instance, ns).cfg,
                                                           Len(fam.loggers) + 1),
                                  !.ret = Len(fam.loggers) + 1]
     ELSE fam' = [fam EXCEPT !.ret = fam.instance]
  /\ Len(fam.loggers) < MaxLoggers
  /\ UNCHANGED famRest

\* getLogger(ns); ret -1 stands for the Error thrown
GetLogger(ns) ==
  /\ IF fam.instance = 0
       THEN fam' = [fam EXCEPT !.ret = -1]
     ELSE IF Truthy(ns)
       THEN /\ Len(fam.loggers) < MaxLoggers
            /\ fam' = [fam EXCEPT !.loggers = Append(@, ChildOf(fam.instance, ns)),
                                  !.console = PatchConsole(ChildOf(fam.instance, ns).cfg,
                                                           Len(fam.loggers) + 1),
                                  !.ret = Len(fam.loggers) + 1]
     ELSE fam' = [fam EXCEPT !.ret = fam.instance]
  /\ UNCHANGED famRest

\* logger.child(s) on Logger i
Child(i, s) ==
  /\ i \in DOMAIN fam.loggers
  /\ Len(fam.loggers) < MaxLoggers
  /\ fam' = [fam EXCEPT !.loggers = Append(@, ChildOf(i, s)),
                        !.console = PatchConsole(ChildOf(i, s).cfg, Len(fam.loggers) + 1),
                        !.ret = Len(fam.loggers) + 1]
  /\ UNCHANGED famRest

\* mutant: the level is set on every Logger (one configuration object for all)
SetLevelOn_shared(i, level) ==
  /\ i \in DOMAIN fam.loggers
  /\ fam' = [fam EXCEPT !.loggers = [j \in DOMAIN @ |-> [@[j] EXCEPT !.cfg.level = level]],
                        !.ret = 0]
  /\ UNCHANGED famRest

\* logger.setLevel(level) on Logger i
SetLevelOn(i, level) ==
  /\ i \in DOMAIN fam.loggers
  /\ fam' = [fam EXCEPT !.loggers[i].cfg.level = level,
                        !.ret = 0]
  /\ UNCHANGED famRest

\* mutant: the records still buffered take the new id as well
SetCorrelationId_retro(i, id) ==
  /\ i \in DOMAIN fam.loggers
  /\ fam' = [fam EXCEPT !.loggers[i].cfg.correlationId = id,
                        !.loggers[i].buffer =
                            [k \in DOMAIN @ |-> [@[k] EXCEPT !.correlationId = id]],
                        !.ret = 0]
  /\ UNCHANGED famRest

\* logger.setCorrelationId(id) on Logger i
SetCorrelationId(i, id) ==
  /\ i \in DOMAIN fam.loggers
  /\ fam' = [fam EXCEPT !.loggers[i].cfg.correlationId = id,
                        !.ret = 0]
  /\ UNCHANGED famRest

\* Logger.allowed under the configuration c
AllowedBy(c, level) == IndexOf(level) >= IndexOf(c.level)

\* Logger.buildRecord under the configuration c
BuildRecordOf(c, id, level) ==
  [id |-> id, level |-> level, ns |-> c.namespace, correlationId |-> c.correlationId]

\* AsyncBatchQueue.flush on the queue of Logger lg with the buffer holding buf,
\* up to its await: the Logger left behind and the batch handed to the callback
FlushOf(lg, buf) ==
  IF lg.flushing \/ buf = <<>>
    THEN [lg |-> [lg EXCEPT !.buffer = buf, !.timer = FALSE], out |-> <<>>]
    ELSE [lg |-> [lg EXCEPT !.buffer = <<>>, !.timer = FALSE, !.flushing = TRUE],
          out |-> buf]

\* AsyncBatchQueue.push on the queue of Logger lg
PushOf(lg, item) ==
  LET buf == Append(lg.buffer, item)
  IN IF Len(buf) >= lg.cfg.batchSize
       THEN FlushOf(lg, buf)
       ELSE [lg |-> [lg EXCEPT !.buffer = buf, !.timer = TRUE], out |-> <<>>]

\* the flush callback of Logger lg: write(items) on each transport of its list
WrittenBy(lg, out) ==
  IF out = <<>> THEN fam.written
  ELSE Append(fam.written, [tr |-> lg.cfg.transports, items |-> out])

\* the oldest ancestor of Logger i
RECURSIVE RootOf(_)
RootOf(i) == IF fam.loggers[i].parent = 0 THEN i ELSE RootOf(fam.loggers[i].parent)

\* mutant: one queue for the whole family, that of the root
LogOn_rootQueue(i, level) ==
  /\ i \in DOMAIN fam.loggers
  /\ LET lg == fam.loggers[i]
         rec == BuildRecordOf(lg.cfg, Len(fam.built) + 1, level)
         limited == lg.cfg.maxPerMin # 0
         counted == IF limited THEN RateLimiterCall(lg.rl, now) ELSE lg.rl
         r == PushOf(fam.loggers[RootOf(i)], rec)
     IN IF ~AllowedBy(lg.cfg, level)
          THEN fam' = [fam EXCEPT !.ret = 0]
        ELSE IF limited /\ ~RateLimiterResult(lg.rl, now, lg.cfg.maxPerMin)
          THEN fam' = [fam EXCEPT !.loggers[i].rl = counted,
                                  !.built = Append(@, rec),
                                  !.ret = 0]
        ELSE fam' = [[fam EXCEPT !.loggers[i].rl = counted]
                       EXCEPT !.loggers[RootOf(i)].buffer = r.lg.buffer,
                              !.loggers[RootOf(i)].timer = r.lg.timer,
                              !.loggers[RootOf(i)].flushing = r.lg.flushing,
                              !.written = WrittenBy(lg, r.out),
                              !.built = Append(@, rec),
                              !.ret = 0]
  /\ UNCHANGED famRest

\* logger.trace / debug / info / warn / error / fatal on Logger i
LogOn(i, level) ==
  /\ i \in DOMAIN fam.loggers
  /\ LET lg == fam.loggers[i]
         rec == BuildRecordOf(lg.cfg, Len(fam.built) + 1, level)
         limited == lg.cfg.maxPerMin # 0
         counted == IF limited THEN [lg EXCEPT !.rl = RateLimiterCall(lg.rl, now)] ELSE lg
         r == PushOf(counted, rec)
     IN IF ~AllowedBy(lg.cfg, level)
          THEN fam' = [fam EXCEPT !.ret = 0]
        ELSE IF limited /\ ~RateLimiterResult(lg.rl, now, lg.cfg.maxPerMin)
          THEN fam' = [fam EXCEPT !.loggers[i] = counted,
                                  !.built = Append(@, rec),
                                  !.ret = 0]
        ELSE fam' = [fam EXCEPT !.loggers[i] = r.lg,
                                !.written = WrittenBy(lg, r.out),
                                !.built = Append(@, rec),
                                !.ret = 0]
  /\ UNCHANGED famRest

\* the Logger method a patched console function calls
ConsoleMethods == {"log", "info", "warn", "error", "debug"}

ConsoleLevel(method) == IF method = "log" THEN "debug" ELSE method

\* console.log / info / warn / error / debug called after a Logger patched
\* the console
ConsoleCall(method) ==
  /\ fam.console # 0
  /\ LogOn(fam.console, ConsoleLevel(method))

\* the setTimeout callback of Logger i's queue
TimerFireOn(i) ==
  /\ i \in DOMAIN fam.loggers
  /\ fam.loggers[i].timer
  /\ LET lg == fam.loggers[i]
         r == FlushOf(lg, lg.buffer)
     IN fam' = [fam EXCEPT !.loggers[i] = r.lg,
                           !.written = WrittenBy(lg, r.out),
                           !.ret = 0]
  /\ UNCHANGED famRest

\* AsyncBatchQueue.flush of Logger i after its await (the writes returned
\* void, so the callback's promise resolved): the finally block
FlushFinallyOn(i) ==
  /\ i \in DOMAIN fam.loggers
  /\ fam.loggers[i].flushing
  /\ fam' = [fam EXCEPT !.loggers[i].flushing = FALSE,
                        !.calls = [k \in DOMAIN @ |->
                                     IF @[k].on = i THEN [@[k] EXCEPT !.wait = FALSE]
                                     ELSE @[k]],
                        !.ret = 0]
  /\ UNCHANGED famRest

\* Logger.flush (op "flush") or Logger.dispose (op "dispose") on Logger i up
\* to the first await: queue.flush() has run up to its own await; wait says
\* that its promise is pending, for having invoked the callback
StartCall(i, op) ==
  /\ i \in DOMAIN fam.loggers
  /\ Len(fam.calls) < MaxFlushCalls
  /\ LET lg == fam.loggers[i]
         r == FlushOf(lg, lg.buffer)
     IN fam' = [fam EXCEPT !.loggers[i] = r.lg,
                           !.written = WrittenBy(lg, r.out),
                           !.calls = Append(@, [on |-> i, op |-> op, pc |-> "awaitQueue",
                                                wait |-> r.out # <<>>]),
                           !.ret = 0]
  /\ UNCHANGED famRest

\* logger.flush() on Logger i
FlushOn(i) == StartCall(i, "flush")

\* logger.dispose() on Logger i
DisposeOn(i) == StartCall(i, "dispose")

\* the k-th flush() or dispose() call goes on after an await: from
\* queue.flush() to the t.flush() of the Logger's transports, from those to
\* the end of flush(), which for dispose() leads to the t.dispose() of the
\* transports, and from those to the end
CallStep(k) ==
  /\ k \in DOMAIN fam.calls
  /\ ~fam.calls[k].wait
  /\ fam.calls[k].pc # "resolved"
  /\ fam' = [fam EXCEPT !.calls[k].pc =
                CASE @ = "awaitQueue" -> "awaitFlushes"
                  [] @ = "awaitFlushes" ->
                       IF fam.calls[k].op = "flush" THEN "resolved" ELSE "awaitDisposes"
                  [] @ = "awaitDisposes" -> "resolved",
                        !.ret = 0]
  /\ UNCHANGED famRest

InitFamily ==
  /\ IdleLogger
  /\ now = 0
  /\ rl = MakeRateLimiter(0)
  /\ lim = [maxPerMin |-> 1, calls |-> <<>>, ticks |-> 0]
  /\ red = [extraKeys |-> <<>>,
            input |-> [id |-> 0, level |-> "info", ctx |-> Undefined],
            outs |-> <<>>]
  /\ smp = IdleSampler
  /\ fam = NoFamily

\* SpecFamily: one root and the Loggers made from it by child('a'), their
\* levels and correlation ids set and their methods called in every order,
\* all within one batching interval (no timer fires).
NextFamily ==
  \/ \E c \in FamilyConfigs : fam.instance = 0 /\ c.namespace = Undefined /\ InitLogger(c)
  \/ \E i \in 1..MaxLoggers : Child(i, Str(<<"a">>))
  \/ \E i \in 1..MaxLoggers, level \in FamilyLevels : SetLevelOn(i, level)
  \/ \E i \in 1..MaxLoggers, id \in CorrelationIds : SetCorrelationId(i, id)
  \/ \E i \in 1..MaxLoggers :
        Len(fam.built) < MaxFamilyCalls /\ LogOn(i, "info")

SpecFamily == InitFamily /\ [][NextFamily]_vars

\* SpecCorrelation: one root, its correlation id set and cleared between log
\* calls, timer firings and completed flushes.
NextCorrelation ==
  \/ \E c \in FamilyConfigs : fam.instance = 0 /\ c.namespace = Undefined /\ InitLogger(c)
  \/ \E id \in CorrelationIds : SetCorrelationId(1, id)
  \/ \E level \in {"info", "error"} :
        Len(fam.built) < MaxCalls + 1 /\ LogOn(1, level)
  \/ TimerFireOn(1)
  \/ FlushFinallyOn(1)

SpecCorrelation == InitFamily /\ [][NextCorrelation]_vars

\* SpecNames: roots with and without a namespace, and the Loggers made from
\* them by child and getLogger with empty and non-empty names, each called.
NextNames ==
  \/ \E c \in FamilyConfigs : InitLogger(c)
  \/ \E ns \in {Undefined} \cup Suffixes : GetLogger(ns)
  \/ \E i \in 1..MaxLoggers, s \in Suffixes : Child(i, s)
  \/ \E i \in 1..MaxLoggers :
        Len(fam.built) < MaxFamilyCalls /\ LogOn(i, "info")

SpecNames == InitFamily /\ [][NextNames]_vars

\* SpecRegistry: initLogger and getLogger called in every order, before and
\* after the root in the registry was used and reconfigured.
NextRegistry ==
  \/ \E c \in FamilyConfigs : c.namespace = Undefined /\ InitLogger(c)
  \/ \E ns \in {Undefined, Str(<<"a">>)} : GetLogger(ns)
  \/ \E i \in 1..MaxLoggers : SetLevelOn(i, "error")
  \/ \E i \in 1..MaxLoggers : SetCorrelationId(i, Str(<<"x">>))
  \/ \E i \in 1..MaxLoggers :
        Len(fam.built) < MaxFamilyCalls /\ LogOn(i, "error")

SpecRegistry == InitFamily /\ [][NextRegistry]_vars

\* SpecQueues: the root of the registry and the Loggers made from it by
\* getLogger('a'), each called, flushed or disposed of and its flushes
\* completing, all within one batching interval (no timer fires).
NextQueues ==
  \/ \E c \in FamilyConfigs : fam.instance = 0 /\ c.namespace = Undefined /\ InitLogger(c)
  \/ GetLogger(Str(<<"a">>))
  \/ \E i \in 1..MaxLoggers :
        Len(fam.built) < MaxCalls /\ LogOn(i, "info")
  \/ \E i \in 1..MaxLoggers : FlushOn(i)
  \/ \E i \in 1..MaxLoggers : DisposeOn(i)
  \/ \E k \in 1..MaxFlushCalls : CallStep(k)
  \/ \E i \in 1..MaxLoggers : FlushFinallyOn(i)

SpecQueues == InitFamily /\ [][NextQueues]_vars

\* Logger i has had dispose() called on it
Disposing(i) ==
  \E k \in DOMAIN fam.calls : fam.calls[k].on = i /\ fam.calls[k].op = "dispose"

\* SpecShutdown: the root of the registry and the Loggers made from it by
\* getLogger('a'), which share the root's transports array; each is called
\* until dispose() is called on it, timers fire and flushes complete.
NextShutdown ==
  \/ \E c \in FamilyConfigs : fam.instance = 0 /\ c.namespace = Undefined /\ InitLogger(c)
  \/ GetLogger(Str(<<"a">>))
  \/ \E i \in 1..MaxLoggers :
        Len(fam.built) < MaxCalls /\ ~Disposing(i) /\ LogOn(i, "info")
  \/ \E i \in 1..MaxLoggers : TimerFireOn(i)
  \/ \E i \in 1..MaxLoggers : DisposeOn(i)
  \/ \E k \in 1..MaxFlushCalls : CallStep(k)
  \/ \E i \in 1..MaxLoggers : FlushFinallyOn(i)

SpecShutdown == InitFamily /\ [][NextShutdown]_vars

\* SpecConsole: a root made by initLogger with patchConsole: true, the Loggers
\* made from it by getLogger('a') and child('a'), and calls of the console
\* functions.
NextConsole ==
  \/ \E c \in PatchedConfigs : fam.instance = 0 /\ InitLogger(c)
  \/ GetLogger(Str(<<"a">>))
  \/ \E i \in 1..MaxLoggers : Child(i, Str(<<"a">>))
  \/ \E method \in ConsoleMethods :
        Len(fam.built) < MaxCalls /\ ConsoleCall(method)

SpecConsole == InitFamily /\ [][NextConsole]_vars

\* SpecLimits: a root with rateLimit.maxPerMin set and the Loggers made from
\* it by child('a'), made and called while Date.now() moves up to and over
\* the end of their limiters' windows; what becomes of the records queued is
\* left out.
NextLimits ==
  \/ \E c \in LimitedConfigs : fam.instance = 0 /\ InitLogger(c)
  \/ \E i \in 1..MaxLoggers :
        Len(fam.loggers) < MaxLoggers - 1 /\ Child(i, Str(<<"a">>))
  \/ \E d \in ClockSteps : lim.ticks < MaxTicks - 1 /\ RateTick(d)
  \/ \E i \in 1..MaxLoggers :
        Len(fam.built) < MaxCalls /\ LogOn(i, "info")

SpecLimits == InitFamily /\ [][NextLimits]_vars

\* ------------------------------------------------------------------ claims
RECURSIVE Flatten(_)
Flatten(ss) == IF ss = <<>> THEN <<>> ELSE Head(ss) \o Flatten(Tail(ss))

\* every record handed to the flush callback so far, in invocation order
Delivered == Flatten(batches)

\* the batches transport t's write was invoked with, in invocation order
RECURSIVE WrittenFrom(_, _)
WrittenFrom(t, b) ==
  IF b > Len(batches) THEN <<>>
  ELSE (IF wstat[t][b] = "skipped" THEN <<>> ELSE <<batches[b]>>) \o WrittenFrom(t, b + 1)

Written(t) == WrittenFrom(t, 1)

StrictlyIncreasingIds(recs) ==
  \A i, j \in DOMAIN recs : i < j => recs[i].id < recs[j].id

InFlight == \E b \in DOMAIN cbs : cbs[b].st = "pending"

\* C1: with no rate limit and sampling rate 1, a call at level L under the
\* threshold T in force enqueues exactly one record (of level L) iff
\* rank(L) >= rank(T), and nothing otherwise; a setLevel call leaves the
\* buffered and the dispatched records as they are.
LevelGating ==
  [][ (cfg.maxPerMin = 0 /\ cfg.rate = RateDenom) =>
        /\ (ignored' # "none") =>
             /\ IndexOf(ignored') < IndexOf(cfg.level)
             /\ buffer' = buffer
             /\ batches' = batches
        /\ (nextId' # nextId) =>
             LET q == Delivered \o buffer
                 q2 == Delivered' \o buffer'
             IN /\ Len(q2) = Len(q) + 1
                /\ SubSeq(q2, 1, Len(q)) = q
                /\ IndexOf(q2[Len(q2)].level) >= IndexOf(cfg.level)
        /\ (nextId' = nextId) => Len(Delivered' \o buffer') = Len(Delivered \o buffer)
        /\ (cfg'.level # cfg.level) => (buffer' = buffer /\ batches' = batches)
    ]_vars

\* reached: after setLevel("error") an error call is accepted behind an info record
LevelGatingWitness ==
  /\ cfg.level = "error"
  /\ Len(Delivered \o buffer) = 2
  /\ (Delivered \o buffer)[1].level = "info"
  /\ (Delivered \o buffer)[2].level = "error"

\* C2: the batches handed to the flush callback so far, in invocation order,
\* followed by the buffer, are the pushed items in push order; each transport
\* is written the records in the order they were accepted.
QueueOrder ==
  /\ Delivered \o buffer = pushed
  /\ StrictlyIncreasingIds(pushed)
  /\ \A t \in Transports : StrictlyIncreasingIds(Flatten(Written(t)))

\* reached: two records were pushed, the first was dispatched to both
\* transports and the second is buffered
QueueOrderWitness ==
  /\ Len(pushed) = 2
  /\ Len(batches) = 1
  /\ Len(buffer) = 1
  /\ \A t \in Transports : Len(Written(t)) = 1

\* C3: at most one invocation of the flush callback is unsettled; while one
\* is, no step invokes the callback, and a Logger.flush() call gets a
\* queue.flush() promise that is already resolved, with the buffer kept and
\* no timer left armed.
AtMostOneFlush ==
  [][ /\ Cardinality({b \in DOMAIN cbs' : cbs'[b].st = "pending"}) <= 1
      /\ InFlight => batches' = batches
      /\ \A f \in FlushIds :
           (InFlight /\ fl[f].pc = "idle" /\ fl'[f].pc # "idle") =>
             /\ fl'[f].q = "resolved"
             /\ buffer' = buffer
             /\ ~timer'
             /\ cbs' = cbs
    ]_vars

\* reached: flush() was called with records buffered behind a callback in flight
AtMostOneFlushWitness ==
  /\ InFlight
  /\ Len(batches) = 1
  /\ buffer # <<>>
  /\ fl[1].pc = "awaitQueue"
  /\ fl[1].q = "resolved"
  /\ fl[1].at = Len(pushed)

\* C4: whenever a Logger.flush() call has resolved, flush was invoked on every
\* transport that exposes it and every record accepted before the call has
\* been handed to the flush callback (the buffer held none of them any more).
FlushDrains ==
  \A f \in FlushIds :
    fl[f].pc = "resolved" =>
      /\ \A t \in Transports : HasFlush(t) => fl[f].tf[t] # "none"
      /\ Len(Delivered) >= fl[f].at

\* C5: every pushed item is eventually handed to the flush callback, given
\* only that armed timers fire and callback invocations complete.
EventualDelivery ==
  \A i \in 1..MaxCalls : (Len(pushed) >= i) ~> (Len(Delivered) >= i)

\* C6: every batch the flush callback dispatched was written to every transport.
FanOutIsolation ==
  \A t \in Transports : \A b \in DOMAIN batches : wstat[t][b] # "skipped"

\* no key of v whose lower-cased form is in keys has a value other than the marker
RECURSIVE Masked(_, _)
Masked(keys, v) ==
  CASE v.tag = "arr" -> \A i \in DOMAIN v.items : Masked(keys, v.items[i])
    [] v.tag = "obj" ->
         \A k \in DOMAIN v.fields :
           IF ToLowerCase(k) \in keys
             THEN v.fields[k] = Prim(MARKER)
             ELSE Masked(keys, v.fields[k])
    [] OTHER -> TRUE

\* C7: with a redactor configured, every record in the buffer or handed to a
\* transport is the redactor's output for a record the call built, with no
\* unmasked value under a sensitive key; a record in the queue never changes.
RedactBeforeEnqueue ==
  [][ LET q == Delivered \o buffer
          q2 == Delivered' \o buffer'
      IN /\ SubSeq(q2, 1, Len(q)) = q
         /\ \A t \in Transports : \A b \in DOMAIN batches :
              wstat[t][b] # "skipped" => batches'[b] = batches[b]
         /\ cfg.redactor =>
              \A i \in (Len(q) + 1)..Len(q2) :
                /\ Masked(SensitiveKeys(<<>>), q2[i].ctx)
                /\ \E c \in CtxChoices :
                     q2[i] = Redactor(<<>>, [q2[i] EXCEPT !.ctx = c])
    ]_vars

\* reached: a record with masked user.password and Token was written to the
\* transports and another one is buffered
RedactBeforeEnqueueWitness ==
  /\ cfg.redactor
  /\ Len(batches) = 1
  /\ Len(buffer) = 1
  /\ \A t \in Transports : wstat[t][1] = "ok"
  /\ batches[1][1].ctx # Undefined
  /\ batches[1][1].ctx.fields["user"].fields["password"] = Prim(MARKER)
  /\ buffer[1].ctx # Undefined
  /\ buffer[1].ctx.fields["Token"] = Prim(MARKER)
  /\ buffer[1].ctx.fields["safe"] = Prim("z")

\* the sensitive set as the documentation gives it: the defaults and the
\* lower-cased extras
ClaimedSensitive(extraKeys) ==
  {"password", "pass", "token", "authorization", "secret", "otp", "pin",
   "creditcard", "sessionid"} \cup {ToLowerCase(extraKeys[i]) : i \in DOMAIN extraKeys}

\* vout has the keys and the shape of vin, the marker under every sensitive
\* key and vin's own values elsewhere
RECURSIVE Covers(_, _, _)
Covers(keys, vin, vout) ==
  CASE vin.tag = "obj" ->
         /\ vout.tag = "obj"
         /\ DOMAIN vout.fields = DOMAIN vin.fields
         /\ \A k \in DOMAIN vin.fields :
              IF ToLowerCase(k) \in keys
                THEN vout.fields[k] = Prim(MARKER)
                ELSE Covers(keys, vin.fields[k], vout.fields[k])
    [] vin.tag = "arr" ->
         /\ vout.tag = "arr"
         /\ Len(vout.items) = Len(vin.items)
         /\ \A i \in DOMAIN vin.items : Covers(keys, vin.items[i], vout.items[i])
    [] OTHER -> vout = vin

\* C8: the redactor keeps the keys at every nesting level, puts the marker
\* under every key whose lower-cased form is sensitive (at any depth, also
\* inside arrays), leaves every other non-container value as it is, and
\* returns a record without context unchanged.
RedactionCoverage ==
  Len(red.outs) >= 1 =>
    LET rin == red.input
        rout == red.outs[1]
    IN /\ rout.id = rin.id
       /\ rout.level = rin.level
       /\ IF rin.ctx = Undefined
            THEN rout = rin
            ELSE Covers(ClaimedSensitive(red.extraKeys), rin.ctx, rout.ctx)

\* reached: {safe: [{Token: 'x'}]} was redacted, the marker put inside the array
RedactionCoverageWitness ==
  /\ Len(red.outs) >= 1
  /\ red.input.ctx = Obj([k \in {"safe"} |->
                             Arr(<<Obj([j \in {"Token"} |-> Prim("x")])>>)])
  /\ red.outs[1].ctx = Obj([k \in {"safe"} |->
                               Arr(<<Obj([j \in {"Token"} |-> Prim(MARKER)])>>)])

\* C9: R(R(r)) = R(r) for every record r and every redactor R of makeRedactor.
RedactionIdempotent ==
  Len(red.outs) = 2 => red.outs[2] = red.outs[1]

\* reached: a record whose context the redactor changed was redacted twice
RedactionIdempotentWitness ==
  /\ Len(red.outs) = 2
  /\ red.input.ctx # Undefined
  /\ red.outs[1] # red.input
  /\ \E k \in DOMAIN red.input.ctx.fields : red.input.ctx.fields[k].tag = "obj"

\* the results the calls from the i-th on must have, when the window in force
\* began at w and k calls were counted in it
RECURSIVE WindowResults(_, _, _, _, _)
WindowResults(calls, i, w, k, n) ==
  IF i > Len(calls) THEN TRUE
  ELSE LET fresh == calls[i].t - w >= 60000
           w2 == IF fresh THEN calls[i].t ELSE w
           k2 == IF fresh THEN 1 ELSE k + 1
       IN /\ calls[i].ok = (k2 <= n)
          /\ WindowResults(calls, i + 1, w2, k2, n)

\* C10: the k-th call within one window returns true iff k <= maxPerMin; a
\* window begins at the limiter's creation (time 0) or at the first call made
\* at least 60000 ms after the start of the window in force, and only such a
\* call resets the count.
FixedWindow == WindowResults(lim.calls, 1, 0, 0, lim.maxPerMin)

\* reached: maxPerMin = 2, three calls at time 0 give true, true, false, and a
\* call at 60000 gives true again
FixedWindowWitness ==
  /\ lim.maxPerMin = 2
  /\ Len(lim.calls) = 4
  /\ lim.calls[1] = [t |-> 0, ok |-> TRUE]
  /\ lim.calls[2] = [t |-> 0, ok |-> TRUE]
  /\ lim.calls[3] = [t |-> 0, ok |-> FALSE]
  /\ lim.calls[4] = [t |-> 60000, ok |-> TRUE]

\* C11: with rateLimit.maxPerMin = N, no interval of 60000 ms, wherever it
\* starts, holds more than N accepted records (it is enough to look at the
\* intervals that start with an accepted record).
PerMinuteCap ==
  cfg.maxPerMin # 0 =>
    \A i \in DOMAIN pushed :
      Cardinality({j \in DOMAIN pushed :
                     /\ pushed[i].ts <= pushed[j].ts
                     /\ pushed[j].ts < pushed[i].ts + 60000}) <= cfg.maxPerMin

ClaimedNamespace(pns, s) ==
  IF pns # Undefined /\ pns.val # <<>> THEN Str(pns.val \o <<":">> \o s.val) ELSE s

\* what C13 says of child, of the records and of the namespace of a Logger
NamespaceOfChildren ==
  /\ \A i \in 1..MaxLoggers, s \in Suffixes :
       Child(i, s) =>
         LET n == Len(fam.loggers) + 1
         IN /\ fam'.ret = n
            /\ fam'.loggers[n].cfg.namespace =
                 ClaimedNamespace(fam.loggers[i].cfg.namespace, s)
  /\ \A i \in 1..MaxLoggers :
       (LogOn(i, "info") /\ Len(fam'.built) > Len(fam.built)) =>
         fam'.built[Len(fam'.built)].ns = fam.loggers[i].cfg.namespace
  /\ \A j \in DOMAIN fam.loggers :
       fam'.loggers[j].cfg.namespace = fam.loggers[j].cfg.namespace

\* getLogger(ns) hands out a new Logger that is root.child(ns)
YieldsChild(ns) ==
  LET n == Len(fam.loggers) + 1
  IN /\ fam'.ret = n
     /\ Len(fam'.loggers) = n
     /\ fam'.loggers[n].parent = fam.instance
     /\ fam'.loggers[n].cfg.namespace =
          ClaimedNamespace(fam.loggers[fam.instance].cfg.namespace, ns)

\* C13 as stated: a child's records carry parent namespace + ':' + suffix, or
\* the suffix under a parent without namespace; getLogger(ns) yields
\* root.child(ns) for every name ns; no namespace ever changes.
NamespaceInheritanceAsStated ==
  [][ /\ NamespaceOfChildren
      /\ \A ns \in Suffixes : (fam.instance # 0 /\ GetLogger(ns)) => YieldsChild(ns)
    ]_vars

\* C13, amended: as stated, but getLogger(ns) yields root.child(ns) for the
\* non-empty names only; getLogger('') returns the root itself, as getLogger()
\* does, and makes no Logger.
NamespaceInheritance ==
  [][ /\ NamespaceOfChildren
      /\ \A ns \in Suffixes :
           (fam.instance # 0 /\ GetLogger(ns)) =>
             IF ns.val # <<>> THEN YieldsChild(ns)
             ELSE fam'.ret = fam.instance /\ fam'.loggers = fam.loggers
    ]_vars

\* reached: child('a').child('b') on a root without namespace, and a record
\* built by it with namespace 'a:b'
NamespaceInheritanceWitness ==
  /\ Len(fam.loggers) = 3
  /\ fam.loggers[1].cfg.namespace = Undefined
  /\ fam.loggers[2].parent = 1
  /\ fam.loggers[3].parent = 2
  /\ fam.loggers[3].cfg.namespace = Str(<<"a", ":", "b">>)
  /\ Len(fam.built) = 1
  /\ fam.built[1].ns = Str(<<"a", ":", "b">>)

\* C14: a child starts with its parent's level and correlationId as they are
\* when child() is called; setLevel and setCorrelationId change the Logger
\* they are called on and no other; each Logger's calls are gated by its own
\* level and its records carry its own correlationId; every Logger has the
\* transport list of its parent.
FamilyIndependence ==
  [][ /\ \A i \in 1..MaxLoggers, s \in Suffixes :
           Child(i, s) =>
             LET n == Len(fam.loggers) + 1
             IN /\ fam'.loggers[n].cfg.level = fam.loggers[i].cfg.level
                /\ fam'.loggers[n].cfg.correlationId = fam.loggers[i].cfg.correlationId
                /\ fam'.loggers[n].cfg.transports = fam.loggers[i].cfg.transports
                /\ \A j \in DOMAIN fam.loggers : fam'.loggers[j] = fam.loggers[j]
      /\ \A i \in 1..MaxLoggers, level \in FamilyLevels :
           SetLevelOn(i, level) =>
             /\ fam'.loggers[i].cfg = [fam.loggers[i].cfg EXCEPT !.level = level]
             /\ \A j \in DOMAIN fam.loggers \ {i} : fam'.loggers[j] = fam.loggers[j]
             /\ fam'.built = fam.built
      /\ \A i \in 1..MaxLoggers, id \in CorrelationIds :
           SetCorrelationId(i, id) =>
             /\ fam'.loggers[i].cfg = [fam.loggers[i].cfg EXCEPT !.correlationId = id]
             /\ \A j \in DOMAIN fam.loggers \ {i} : fam'.loggers[j] = fam.loggers[j]
             /\ fam'.built = fam.built
      /\ \A i \in 1..MaxLoggers :
           LogOn(i, "info") =>
             /\ \A j \in DOMAIN fam.loggers : fam'.loggers[j].cfg = fam.loggers[j].cfg
             /\ IF IndexOf("info") >= IndexOf(fam.loggers[i].cfg.level)
                  THEN /\ Len(fam'.built) = Len(fam.built) + 1
                       /\ fam'.built[Len(fam'.built)].correlationId =
                            fam.loggers[i].cfg.correlationId
                  ELSE fam'.built = fam.built
      /\ \A j \in DOMAIN fam'.loggers :
           fam'.loggers[j].parent # 0 =>
             fam'.loggers[j].cfg.transports =
               fam'.loggers[fam'.loggers[j].parent].cfg.transports
    ]_vars

\* reached: a root at debug with two children, one set to error and the
\* other given a correlation id after a record was built
FamilyIndependenceWitness ==
  /\ Len(fam.loggers) = 3
  /\ fam.loggers[2].parent = 1
  /\ fam.loggers[3].parent = 1
  /\ fam.loggers[1].cfg.level = "debug"
  /\ fam.loggers[2].cfg.level = "error"
  /\ fam.loggers[3].cfg.level = "debug"
  /\ fam.loggers[1].cfg.correlationId = Undefined
  /\ fam.loggers[2].cfg.correlationId = Undefined
  /\ fam.loggers[3].cfg.correlationId = Str(<<"x">>)
  /\ Len(fam.built) = 1

\* every record in a buffer or written to the transports, in no fixed order
QueuedRecords ==
  UNION {SeqRange(fam.loggers[i].buffer) : i \in DOMAIN fam.loggers}
    \cup UNION {SeqRange(fam.written[b].items) : b \in DOMAIN fam.written}

\* C15: a record carries the correlationId its Logger had when the call built
\* it; no later step changes a record, buffered or dispatched; the Logger's
\* correlationId is the argument of the last setCorrelationId.
CorrelationCapture ==
  [][ /\ \A level \in {"info", "error"} :
           (LogOn(1, level) /\ Len(fam'.built) > Len(fam.built)) =>
             fam'.built[Len(fam'.built)].correlationId = fam.loggers[1].cfg.correlationId
      /\ SubSeq(fam'.built, 1, Len(fam.built)) = fam.built
      /\ \A r \in QueuedRecords' : r = fam'.built[r.id]
      /\ \A id \in CorrelationIds :
           SetCorrelationId(1, id) => fam'.loggers[1].cfg.correlationId = id
      /\ \A j \in DOMAIN fam.loggers :
           fam'.loggers[j].cfg.correlationId # fam.loggers[j].cfg.correlationId =>
             \E id \in CorrelationIds : SetCorrelationId(j, id)
    ]_vars

\* reached: a batch of a record without and a record with the id 'x' was
\* written, the id was cleared, a third record was buffered and the id set again
CorrelationCaptureWitness ==
  /\ Len(fam.written) = 1
  /\ Len(fam.written[1].items) = 2
  /\ fam.written[1].items[1].correlationId = Undefined
  /\ fam.written[1].items[2].correlationId = Str(<<"x">>)
  /\ Len(fam.loggers[1].buffer) = 1
  /\ fam.loggers[1].buffer[1].correlationId = Undefined
  /\ fam.loggers[1].cfg.correlationId = Str(<<"x">>)

\* C16: while initLogger has not been called, getLogger, with or without a
\* namespace, throws, makes no Logger and leaves the registry empty.
UninitialisedThrows ==
  [][ /\ fam.instance = 0 => fam.loggers = <<>>
      /\ \A ns \in {Undefined, Str(<<"a">>)} :
           (fam.instance = 0 /\ GetLogger(ns)) =>
             /\ fam'.ret = -1
             /\ fam'.loggers = <<>>
             /\ fam'.instance = 0
    ]_vars

\* reached: getLogger threw on the empty registry
UninitialisedThrowsWitness ==
  /\ fam.ret = -1
  /\ fam.instance = 0
  /\ fam.loggers = <<>>

InitTwiceThrows ==
  [][ \A c \in FamilyConfigs :
        (fam.instance # 0 /\ InitLogger(c)) =>
          /\ fam'.ret = -1
          /\ fam'.instance = fam.instance
    ]_vars

\* C19: once a Logger.dispose() call has settled, dispose was invoked on every
\* transport that exposes it; dispose is invoked on no transport before the
\* flush() made by that call has completed (queue drain and transports'
\* flush calls), and never on a transport that does not expose it.
DisposeAfterFlush ==
  /\ dsp.pc \in {"resolved", "rejected"} =>
       \A t \in Transports : HasDispose(t) => dsp.td[t] # "none"
  /\ (\E t \in Transports : dsp.td[t] # "none") => fl[dsp.f].pc = "resolved"
  /\ \A t \in Transports : ~HasDispose(t) => dsp.td[t] = "none"

\* C20: a push that brings the buffer to batchSize while no flush is in
\* flight hands the buffered items, in push order, to the flush callback
\* before it returns and leaves the buffer empty; with batch.size = 1 every
\* transport's write has then been invoked with the one record of the call.
SizeTrigger ==
  [][ (nextId' # nextId /\ ~flushing /\ Len(buffer) + 1 = cfg.batchSize) =>
        LET b == Len(batches) + 1
            rec == pushed'[Len(pushed')]
        IN /\ Len(pushed') = Len(pushed) + 1
           /\ rec.id = nextId
           /\ Len(batches') = b
           /\ batches'[b] = Append(buffer, rec)
           /\ buffer' = <<>>
           /\ cfg.batchSize = 1 =>
                /\ batches'[b] = <<[id |-> nextId, ts |-> now, level |-> "info",
                                    ctx |-> Undefined]>>
                /\ \A t \in Transports : wstat'[t][b] # "skipped"
    ]_vars

\* C21: no sequence handed to the flush callback, and so no batch handed to
\* a transport's write, holds more than batchSize items.
BatchSizeBound ==
  \A b \in DOMAIN batches : Len(batches[b]) <= cfg.batchSize

\* C22: a flush() call made with records buffered and no callback in flight
\* hands the whole buffer to the callback in one sequence and leaves the
\* buffer empty; after every flush() call, made by the application, by the
\* timer or by a push that filled the batch, whichever way it returns, no
\* timer is pending.
ManualFlush ==
  [][ /\ \A f \in FlushIds :
           (fl[f].pc = "idle" /\ fl'[f].pc # "idle") =>
             /\ ~timer'
             /\ (buffer # <<>> /\ ~flushing) =>
                  /\ batches' = Append(batches, buffer)
                  /\ buffer' = <<>>
             /\ (buffer = <<>> \/ flushing) =>
                  /\ batches' = batches
                  /\ buffer' = buffer
      /\ (\E beh \in WriteBehaviours : TimerFire(beh)) => ~timer'
      /\ (pushed' # pushed /\ Len(buffer) + 1 >= cfg.batchSize) => ~timer'
    ]_vars

\* reached: flush() handed a buffer shorter than batchSize to the callback
\* and the timer armed by the push is gone
ManualFlushWitness ==
  /\ cfg.batchSize = 2
  /\ Len(batches) = 1
  /\ Len(batches[1]) = 1
  /\ cbs[1].owner = 1
  /\ fl[1].q = "pending"
  /\ buffer = <<>>
  /\ ~timer

\* C23: when the flush callback has failed (a write threw or its promise
\* rejected), the queue.flush() that invoked it clears the in-flight flag
\* and rejects, and the Logger.flush() awaiting it rejects in turn; the flag
\* is set only while a callback is unsettled or its finally block is still to
\* run, which it always can; once every callback is released, a flush() on
\* a non-empty buffer invokes the callback again.
ReleaseOnFailure ==
  [][ /\ \A b \in DOMAIN cbs :
           (cbs[b].st = "rejected" /\ cbs'[b].st = "finished") =>
             /\ ~flushing'
             /\ (cbs[b].owner # 0) => fl'[cbs[b].owner].q = "rejected"
      /\ \A f \in FlushIds :
           (fl[f].pc = "awaitQueue" /\ fl[f].q = "rejected" /\ fl'[f] # fl[f]) =>
             fl'[f].pc = "rejected"
      /\ flushing' => \E b \in DOMAIN cbs' : cbs'[b].st # "finished"
      /\ \A b \in DOMAIN cbs :
           cbs[b].st \in {"resolved", "rejected"} => ENABLED FlushFinally(b)
      /\ \A f \in FlushIds :
           (/\ fl[f].pc = "idle" /\ fl'[f].pc # "idle"
            /\ buffer # <<>>
            /\ \A b \in DOMAIN cbs : cbs[b].st = "finished") =>
             Len(batches') = Len(batches) + 1
    ]_vars

\* reached: the callback invoked by flush() failed, the flag was cleared and
\* that flush() told of the rejection, and the timer has then invoked the
\* callback with the next record
ReleaseOnFailureWitness ==
  /\ Len(batches) = 2
  /\ cbs[1].st = "finished"
  /\ fl[1].pc = "awaitQueue"
  /\ fl[1].q = "rejected"
  /\ cbs[2].st = "pending"
  /\ flushing

\* C24: a sequence handed to the callback never changes afterwards; an item
\* pushed while the in-flight flag is set goes to the end of the buffer and
\* into no sequence; the buffer only grows at its end until a flush takes it;
\* the sequence a flush hands over is the buffer as it stood (with the item
\* of that very push at its end), and the buffer is empty after it.
SnapshotIsolation ==
  [][ LET new == SubSeq(pushed', Len(pushed) + 1, Len(pushed'))
      IN /\ Len(batches') >= Len(batches)
         /\ \A b \in DOMAIN batches : batches'[b] = batches[b]
         /\ (flushing /\ new # <<>>) =>
              /\ batches' = batches
              /\ buffer' = buffer \o new
         /\ (Len(batches') = Len(batches)) => buffer' = buffer \o new
         /\ (Len(batches') > Len(batches)) =>
              /\ Len(batches') = Len(batches) + 1
              /\ batches'[Len(batches')] = buffer \o new
              /\ buffer' = <<>>
    ]_vars

\* reached: with batchSize 1 the second record, pushed while the first was
\* in flight, stayed behind and was handed over alone by a later flush()
SnapshotIsolationWitness ==
  /\ cfg.batchSize = 1
  /\ Len(batches) = 2
  /\ cbs[2].owner = 1
  /\ batches[1] = <<pushed[1]>>
  /\ batches[2] = <<pushed[2]>>

\* C25: the callback's promise stays pending, and with it the in-flight
\* flag set, as long as a write of its batch is unsettled.
AllWritesAwaited ==
  \A b \in DOMAIN cbs :
    (\E t \in Transports : wstat[t][b] = "pending") =>
      /\ cbs[b].st = "pending"
      /\ flushing

\* no two records of a sequence have the same id
DistinctIds(recs) ==
  \A i, j \in DOMAIN recs : i < j => recs[i].id # recs[j].id

\* C26: a record is in the buffer or in one sequence handed to the callback,
\* never in two places and never back in the buffer once handed over, and
\* each transport's write gets every record at most once; a sequence handed
\* over stays as it is; a write that was invoked, or skipped, for a batch is
\* not invoked for it again; the steps that settle and release a failed
\* callback leave the buffer and the sequences alone.
NoRetry ==
  /\ [](/\ DistinctIds(Delivered \o buffer)
        /\ \A t \in Transports : DistinctIds(Flatten(Written(t))))
  /\ [][ /\ \A t \in Transports : \A b \in DOMAIN batches :
              /\ batches'[b] = batches[b]
              /\ wstat[t][b] # "pending" =>
                   wstat'[t][b] \in {wstat[t][b], "done"}
         /\ \A b \in DOMAIN cbs :
              (cbs'[b].st \in {"rejected", "finished"} /\ cbs'[b] # cbs[b]) =>
                /\ buffer' = buffer
                /\ batches' = batches
       ]_vars

\* reached: the first batch failed at transport 1 and was released; the
\* second batch holds the second record only and nothing is buffered
NoRetryWitness ==
  /\ Len(batches) = 2
  /\ wstat[2][1] = "skipped"
  /\ cbs[1].st = "finished"
  /\ batches[2] = <<pushed[2]>>
  /\ buffer = <<>>

\* C27: a log call that passes the gate invokes the redactor first when one
\* is configured, then the rate limiter once when one is configured, whose
\* count goes up by one whether or not it admits (the clock stays within
\* one window here), then shouldSample if and only if the limiter admitted
\* or there is none, then queue.push if and only if shouldSample returned
\* true; a call the limiter turned away is not sampled and leaves the queue
\* as it was, and a pushed record is the redacted one.
PipelineOrder ==
  [][ (nextId' # nextId) =>
        LET limited == cfg.maxPerMin # 0
            admitted == ~limited \/ rl.count + 1 <= cfg.maxPerMin
            first == (IF cfg.redactor THEN <<"redactor">> ELSE <<>>)
                       \o (IF limited THEN <<"rateLimiter">> ELSE <<>>)
            rec == pushed'[Len(pushed')]
        IN /\ trace' \in {first, first \o <<"shouldSample">>,
                          first \o <<"shouldSample", "push">>}
           /\ (trace' # first) <=> admitted
           /\ IF limited
                THEN rl'.count = rl.count + 1 /\ rl'.windowStart = rl.windowStart
                ELSE rl' = rl
           /\ IF trace' = first \o <<"shouldSample", "push">>
                THEN /\ Len(pushed') = Len(pushed) + 1
                     /\ SubSeq(pushed', 1, Len(pushed)) = pushed
                     /\ Delivered' \o buffer' = Delivered \o buffer \o <<rec>>
                     /\ rec.id = nextId
                     /\ cfg.redactor => Masked(SensitiveKeys(<<>>), rec.ctx)
                     /\ rec.level \in {"warn", "error", "fatal"} \/ cfg.rate > 0
                ELSE /\ pushed' = pushed
                     /\ UNCHANGED queueVars
           /\ (trace' = first \o <<"shouldSample">>) => cfg.rate < RateDenom
    ]_vars

\* reached: with a redactor and a limit, the call after the last admitted
\* one was redacted and counted but neither sampled nor pushed
PipelineOrderWitness ==
  /\ cfg.redactor
  /\ cfg.maxPerMin # 0
  /\ trace = <<"redactor", "rateLimiter">>
  /\ rl.count = cfg.maxPerMin + 1
  /\ nextId = rl.count + 1
  /\ pushed # <<>>

\* C28: a log call whose level ranks below the threshold changes neither the
\* buffer, the timer, the in-flight flag, the rate limiter's count and window
\* start nor anything handed to a transport, builds no record and invokes
\* neither the redactor, the rate limiter, shouldSample nor push.
GateNoOp ==
  [][ (ignored' # "none") =>
        /\ IndexOf(ignored') < IndexOf(cfg.level)
        /\ trace' = <<>>
        /\ UNCHANGED <<buffer, timer, timeouts, flushing, rl, cbs, batches, wstat, pushed,
                       nextId, cfg>>
    ]_vars

\* reached: a debug call under threshold info, with a limit configured, one
\* record counted and buffered and the timer armed
GateNoOpWitness ==
  /\ ignored = "debug"
  /\ cfg.level = "info"
  /\ cfg.maxPerMin # 0
  /\ rl.count = 1
  /\ Len(buffer) = 1
  /\ timer
  /\ trace = <<>>

\* the Loggers other than i are as they were
OthersKept(i) ==
  \A j \in DOMAIN fam.loggers : j # i => fam'.loggers[j] = fam.loggers[j]

\* C29: every Logger starts with an empty buffer, no timer and no flush in
\* flight, and making it leaves the others alone; a log call on a Logger
\* changes no other Logger's buffer, timer or flag; flush() and dispose() on
\* a Logger hand over that Logger's own buffer at most, as one batch, and
\* change no other Logger, nor do the later steps of those calls or the
\* completion of a flush; so the records in the buffer of a Logger made by
\* getLogger(ns) stay there when the root is flushed.
QueueIndependence ==
  [][ /\ Len(fam'.loggers) >= Len(fam.loggers)
      /\ (Len(fam'.loggers) > Len(fam.loggers)) =>
           LET n == Len(fam'.loggers)
           IN /\ n = Len(fam.loggers) + 1
              /\ fam'.loggers[n].buffer = <<>>
              /\ ~fam'.loggers[n].timer
              /\ ~fam'.loggers[n].flushing
              /\ OthersKept(n)
              /\ fam'.written = fam.written
      /\ \A i \in DOMAIN fam.loggers :
           /\ (\E level \in Levels : LogOn(i, level)) => OthersKept(i)
           /\ (FlushOn(i) \/ DisposeOn(i)) =>
                /\ OthersKept(i)
                /\ fam'.loggers[i].buffer \in {<<>>, fam.loggers[i].buffer}
                /\ ~fam'.loggers[i].timer
                /\ IF fam'.loggers[i].buffer = fam.loggers[i].buffer
                     THEN fam'.written = fam.written
                     ELSE fam'.written =
                            Append(fam.written, [tr |-> fam.loggers[i].cfg.transports,
                                                 items |-> fam.loggers[i].buffer])
           /\ FlushFinallyOn(i) => (OthersKept(i) /\ fam'.written = fam.written)
      /\ \A k \in DOMAIN fam.calls :
           CallStep(k) => (fam'.loggers = fam.loggers /\ fam'.written = fam.written)
    ]_vars

\* reached: getLogger().flush() has resolved, the root's record was written,
\* and the record logged on a Logger from getLogger('a') is still in that
\* Logger's buffer with its timer armed
QueueIndependenceWitness ==
  /\ fam.instance = 1
  /\ Len(fam.loggers) >= 2
  /\ fam.loggers[2].parent = 1
  /\ Len(fam.loggers[2].buffer) = 1
  /\ fam.loggers[2].timer
  /\ fam.loggers[1].buffer = <<>>
  /\ Len(fam.written) = 1
  /\ Len(fam.calls) = 1
  /\ fam.calls[1] = [on |-> 1, op |-> "flush", pc |-> "resolved", wait |-> FALSE]

\* C30: a Logger made with rateLimit set, by the constructor or by child(),
\* starts with a count of 0 and a window that begins at its making; a log
\* call on a Logger counts on that Logger's limiter only and is admitted by
\* that limiter's count and window alone, whatever the other Loggers counted;
\* no step on one Logger changes the limiter of another.
LimitPerLogger ==
  [][ /\ (Len(fam'.loggers) > Len(fam.loggers)) =>
           LET n == Len(fam'.loggers)
           IN /\ fam'.loggers[n].cfg.maxPerMin # 0
              /\ fam'.loggers[n].rl = [count |-> 0, windowStart |-> now]
              /\ OthersKept(n)
      /\ \A i \in DOMAIN fam.loggers :
           (\E level \in Levels : LogOn(i, level)) =>
             LET lg == fam.loggers[i]
                 fresh == now - lg.rl.windowStart >= 60000
                 k == IF fresh THEN 1 ELSE lg.rl.count + 1
                 rec == fam'.built[Len(fam'.built)]
             IN /\ OthersKept(i)
                /\ Len(fam'.built) = Len(fam.built) + 1
                /\ fam'.loggers[i].rl.count = k
                /\ fam'.loggers[i].rl.windowStart =
                     IF fresh THEN now ELSE lg.rl.windowStart
                /\ (rec \in QueuedRecords') <=> (k <= lg.cfg.maxPerMin)
                /\ fam'.loggers[i].cfg = lg.cfg
    ]_vars

\* reached: with maxPerMin 1, the root and its child, made later, each hold
\* an accepted record, both accepted within the root's first window
LimitPerLoggerWitness ==
  /\ Len(fam.loggers) = 2
  /\ fam.loggers[1].cfg.maxPerMin = 1
  /\ fam.loggers[2].parent = 1
  /\ fam.loggers[2].rl.windowStart > fam.loggers[1].rl.windowStart
  /\ now - fam.loggers[1].rl.windowStart < 60000
  /\ fam.loggers[1].rl.count = 1
  /\ fam.loggers[2].rl.count = 1
  /\ Len(fam.loggers[1].buffer) = 1
  /\ Len(fam.loggers[2].buffer) = 1

\* the number of calls i..j of a limiter that returned true
AcceptedBetween(calls, i, j) ==
  Cardinality({k \in i..j : calls[k].ok})

\* C31: with maxPerMin = N, the calls of one limiter that fall in any interval
\* of 60000 ms (its two ends included) hold at most 2 * N calls that returned
\* true; more than N is possible (the witness).
BoundaryBurst ==
  \A i \in DOMAIN lim.calls : \A j \in DOMAIN lim.calls :
    (i <= j /\ lim.calls[j].t - lim.calls[i].t <= 60000)
      => AcceptedBetween(lim.calls, i, j) <= 2 * lim.maxPerMin

\* reached: maxPerMin = 2 and four calls within 1 ms, on the two sides of a
\* window boundary, all returned true (2 * N > N accepted in under 60000 ms)
BoundaryBurstWitness ==
  /\ lim.maxPerMin = 2
  /\ Len(lim.calls) = 4
  /\ lim.calls[4].t - lim.calls[1].t = 1
  /\ lim.calls[1].t > 0
  /\ AcceptedBetween(lim.calls, 1, 4) = 4

\* C32: at most one timeout is pending and the queue's timer field is set iff
\* one is; a push that leaves the buffer below batchSize sets a timeout iff
\* none is pending and leaves a pending one as it is, so the pending timeout
\* is the one made by the first push after the last clearing; a push that
\* fills the batch, and every other step that changes the timeouts, leaves none.
TimerArming ==
  /\ [](Len(timeouts) <= 1 /\ (timer <=> timeouts # <<>>))
  /\ [][/\ (pushed' # pushed /\ Len(buffer) + 1 < cfg.batchSize) =>
             timeouts' = IF timeouts # <<>> THEN timeouts
                         ELSE <<pushed'[Len(pushed')].id>>
        /\ (pushed' # pushed /\ Len(buffer) + 1 >= cfg.batchSize) => timeouts' = <<>>
        /\ (pushed' = pushed /\ timeouts' # timeouts) => timeouts' = <<>>]_vars

\* reached: batchSize 3, records 1 and 2 buffered, the pending timeout is the
\* one made by the push of record 1
TimerArmingWitness ==
  /\ cfg.batchSize = 3
  /\ Len(buffer) = 2
  /\ buffer[1].id = 1
  /\ timer
  /\ timeouts = <<1>>

\* C33: every sequence handed to the flush callback, hence to a transport's
\* write, holds at least one record; a flush() or timer callback that finds
\* the buffer empty invokes no callback and no write, and leaves the
\* in-flight flag as it was (false when it was false).
NoEmptyBatch ==
  /\ [](\A b \in DOMAIN batches : batches[b] # <<>>)
  /\ [][(/\ buffer = <<>>
          /\ \/ \E f \in FlushIds : fl[f].pc = "idle" /\ fl'[f].pc # "idle"
             \/ \E beh \in WriteBehaviours : TimerFire(beh)) =>
            (/\ batches' = batches
             /\ cbs' = cbs
             /\ wstat' = wstat
             /\ flushing' = flushing
             /\ buffer' = <<>>)]_vars

\* reached: flush() was called before any record was pushed; nothing was
\* handed to the callback and the flag is false
NoEmptyBatchWitness ==
  /\ fl[1].pc # "idle"
  /\ fl[1].at = 0
  /\ fl[1].q = "resolved"
  /\ pushed = <<>>
  /\ batches = <<>>
  /\ ~flushing

\* C34: when the redactor throws in a log call that passed the gate, the
\* call throws to its caller, and the buffer, the timer, the pending timeout,
\* the rate limiter's count and window, the in-flight flag and everything
\* handed to the transports are as they were before the call.
RedactorThrows ==
  [][\A level \in {"debug", "info", "error"} : \A ctx \in CtxChoices :
       (LogCallThrowing(level, ctx) /\ Allowed(level)) =>
         /\ trace'[Len(trace')] = "throw"
         /\ trace' = <<"redactor", "throw">>
         /\ UNCHANGED <<buffer, timer, timeouts, rl, flushing, cbs, batches,
                        wstat, pushed>>]_vars

\* reached: one record counted and buffered under a pending timeout, then
\* a call in which the redactor threw: count, buffer and timeout are those
\* of the first call
RedactorThrowsWitness ==
  /\ trace = <<"redactor", "throw">>
  /\ nextId = 3
  /\ Len(buffer) = 1
  /\ timeouts = <<1>>
  /\ rl.count = 1
  /\ pushed = buffer

\* C35: a log call returns normally whatever the transports do: when the
\* batch it fills is handed to a write that throws, to a write whose promise
\* is later rejected or to one whose promise never settles, the call does
\* not throw, and the record is pushed.
LogCallsReturn ==
  [][nextId' # nextId =>
       /\ \A k \in DOMAIN trace' : trace'[k] # "throw"
       /\ trace'[Len(trace')] = "push"
       /\ Len(pushed') = Len(pushed) + 1
       /\ pushed'[Len(pushed')].id = nextId]_vars

\* reached: the first log call filled the batch, transport 1's write threw
\* and rejected the callback, and the call returned after its push
LogCallsReturnWitness ==
  /\ nextId = 2
  /\ trace = <<"shouldSample", "push">>
  /\ Len(cbs) = 1
  /\ cbs[1].st = "rejected"
  /\ wstat[1][1] = "threw"
  /\ Len(pushed) = 1

\* C36: Logger.flush() invokes no transport's flush() while a write() on the
\* same transport has returned a promise that has not yet settled.
NoFlushUnderWrite ==
  [][\A f \in FlushIds : \A t \in Transports :
       (fl[f].tf[t] = "none" /\ fl'[f].tf[t] # "none") =>
         \A b \in DOMAIN wstat[t] : wstat[t][b] # "pending"]_vars

\* C37: once dispose() on a Logger has invoked dispose() on the transports of
\* its list, no write() is invoked on the transports of that list, by that
\* Logger or by one that shares the list, when no log method is called on a
\* Logger after its own dispose().
NoWriteAfterDispose ==
  [][Len(fam.written') > Len(fam.written) =>
       ~\E k \in DOMAIN fam.calls :
           /\ fam.calls[k].op = "dispose"
           /\ fam.calls[k].pc \in {"awaitDisposes", "resolved"}
           /\ fam.loggers[fam.calls[k].on].cfg.transports
                = fam.written'[Len(fam.written')].tr]_vars

\* C38: once a Logger made with patchConsole: true has patched the console,
\* making further Loggers with child() or getLogger(ns) does not change the
\* Logger the console functions call.
ConsoleTargetStable ==
  [][fam.console # 0 => fam'.console = fam.console]_vars

\* C39: handing a batch to the transports' write() enqueues no record on the
\* Logger: after every step that hands a batch over, the buffer is empty,
\* and every record ever pushed was built by a log call of the application
\* (those are made with a context in this specification).
NoFeedback ==
  /\ [](\A k \in DOMAIN pushed : pushed[k].ctx # Undefined)
  /\ [][Len(batches') > Len(batches) => buffer' = <<>>]_vars

\* C40: on a Logger with maxPerMin = N, an error call that passes the gate
\* is pushed whenever fewer than N records were pushed in the current window,
\* whatever number of info calls were sampled out before it (the clock stays
\* within the first window here, so every pushed record is in the window).
SamplingKeepsQuota ==
  [][\A ctx \in CtxChoices : \A draw \in Draws : \A beh \in MockBehaviours :
       (/\ LogCall("error", ctx, draw, beh)
        /\ Allowed("error")
        /\ cfg.maxPerMin # 0
        /\ Len(pushed) < cfg.maxPerMin) =>
         /\ Len(pushed') = Len(pushed) + 1
         /\ pushed'[Len(pushed')].level = "error"]_vars
====
